---- MODULE Spec2Model ----
(***************************************************************************)
(* A model of the data-acquisition backend: the circular buffer and the    *)
(* sensor data storage (core/models/circular_buffer.py) and the test       *)
(* lifecycle manager (core/services/test_manager.py).                      *)
(*                                                                         *)
(* Conventions.                                                            *)
(*  - Python None is modelled by a value of the shape of the field: the    *)
(*    string "None" for a writer, NoFile for a file handle, NoDir and      *)
(*    NoTest for the current test, NoMask (-1) for the integer _mask.      *)
(*  - A Python call that may raise returns a record [ok |-> TRUE, val]     *)
(*    or [ok |-> FALSE, err] with the name of the exception.               *)
(*  - A Python list that is pre-allocated with a placeholder and then      *)
(*    overwritten cell by cell (CircularBuffer.buffer) is a function from  *)
(*    the overwritten indices to their content; every other index of       *)
(*    0..capacity-1 holds the placeholder.                                 *)
(*  - Floating point times are integers (microseconds in the test          *)
(*    manager); sampling frequencies are rationals <<num, den>>, and       *)
(*    int(x) is the floor of the exact quotient.                           *)
(***************************************************************************)
EXTENDS Integers, Sequences, FiniteSets, TLC

VARIABLES
    cb,          \* the CircularBuffer under test
    cb_log,      \* pairs appended to cb since its construction or last clear
    cb_out,      \* the last read operation applied to cb and its result
    sds,         \* the SensorDataStorage under test
    sds_log,     \* pairs appended to sensor 0 of sds since construction or clear
    sds_out,     \* the last query applied to sds and its result
    \* TestManager
    current_test,        \* the TestMetaData of the current test, or NoTest
    is_running,
    is_stopped,
    test_history,        \* metadata of the tests found on disk by reload_history
    data_storage,        \* SensorDataStorage of the test manager
    start_time,
    raw_file,            \* handle of raw.log, or NoFile
    csv_file,            \* handle of data.csv, or NoFile
    csv_writer,          \* "None" or "DictWriter"
    raw_csv_file,        \* handle of raw_data.csv, or NoFile
    raw_csv_writer,      \* "None" or "DictWriter"
    current_test_dir,    \* directory of the current test, or NoDir
    graphique_images,    \* TRUE while the two PIL images are allocated
    \* environment of the test manager
    disk,                \* TEST_DATA_DIR: directory |-> file name |-> lines
    now,                 \* wall clock, microseconds
    last,                \* the last call made on the test manager and its outcome
    recorded,            \* number of deliveries of an event to a running test
    finalized,           \* ids of the tests finalized and not archived or deleted since (history)
    \* SensorManager
    sm,                  \* sensors, offsets and emulation_mode of the sensor manager
    sm_notify,           \* the _notify call the emulation thread is in, or [busy |-> FALSE]
    sm_pub,              \* events published by the sensor manager, oldest first
    sm_env,              \* lines and commands delivered so far (history)
    \* DataProcessor
    dp,                  \* latest_values and nan_counts of the data processor
    dp_frame,            \* the last processed frame published, or NoFrame
    dp_connected,        \* which physical sensors are connected
    \* SensorReconnectionManager and the serial reader, for one sensor
    hm,                  \* the supervisor's monitor, callback and reconnection task
    hm_delays,           \* retry delays handed out since the last record_data (history)
    hm_last,             \* the last operation on hm and the monitor before it (history)
    rm,                  \* the serial reader's handle, flag and monitor
    rm_out,              \* whether read_func has been called (history)
    \* connectivity of the sensors
    config,              \* the configuration snapshot served by the ConfigLoader
    monitors,       \* per sensor, the state of its reader's monitor, or "none"
    conn_out,            \* the last connectivity query and its answers
    \* EventHub
    hub,                 \* _subscribers and _loop of the event hub, and the calls posted to the loop
    hub_out,             \* the last send_all_on_topic: the subscribers it found and what it did
    \* ServiceManager
    svc,                 \* the background services: which run, and the tasks created
    \* PortDetector
    pd                   \* the serial ports and their devices, and used_ports

ringvars == <<cb, cb_log, cb_out, sds, sds_log, sds_out>>

tmvars == <<current_test, is_running, is_stopped, test_history, data_storage,
            start_time, raw_file, csv_file, csv_writer, raw_csv_file,
            raw_csv_writer, current_test_dir, graphique_images, disk, now, last,
            recorded, finalized>>

\* the components other than the buffers and the test manager
compvars == <<sm, sm_notify, sm_pub, sm_env, dp, dp_frame, dp_connected,
              hm, hm_delays, hm_last, rm_out, rm>>

\* the configuration, the reader tasks, the connectivity queries, the event
\* hub and the service manager
svcvars == <<config, monitors, conn_out, hub, hub_out, svc, pd>>

vars == <<ringvars, tmvars, compvars, svcvars>>

(***************************************************************************)
(* Bounds of the model.                                                    *)
(***************************************************************************)
MaxCapacity == 4      \* capacities 1..MaxCapacity of the buffer under test
MaxAppends == 6       \* appends to the buffer under test between two clears
MaxTime == 1          \* sample times are drawn from 0..MaxTime
MaxStorageTime == 1   \* times of the storage run are drawn from 0..MaxStorageTime
StorageOverrun == 4   \* appends to the storage beyond its capacity
MaxRecorded == 2      \* events delivered to a running test over a run
MaxLines == 3         \* raw arrivals (serial lines, emulated values) over a run
MaxZeros == 2         \* zero commands over a run
MaxNanCount == 4      \* consecutive NaN updates of one sensor
MaxAttempts == 10     \* reconnection attempts of one sensor in a row
MaxReplaced == 2      \* reconnection tasks replaced in reconnection_tasks while pending
MaxOpsFrames == 1     \* frames delivered to a running test over a run with history calls
MaxReaders == 3       \* serial reader tasks created over a run
MaxPorts == 2         \* serial ports of the machine

max_wait_time == 10   \* periodic_sensor_detection

Ok(v) == [ok |-> TRUE, val |-> v]
Raise(e) == [ok |-> FALSE, err |-> e]

Min(a, b) == IF a <= b THEN a ELSE b

(***************************************************************************)
(* Python's & on an integer x and a non-negative mask m (two's complement  *)
(* of unbounded width: floor division and non-negative remainder).         *)
(***************************************************************************)
RECURSIVE BitAnd(_, _)
BitAnd(x, m) ==
    IF m = 0 THEN 0
    ELSE (x % 2) * (m % 2) + 2 * BitAnd(x \div 2, m \div 2)

(***************************************************************************)
(* CircularBuffer                                                          *)
(***************************************************************************)
NoMask == -1
Placeholder == <<0, 0>>

CircularBuffer(capacity) ==
    [capacity |-> capacity,
     buffer |-> <<>>,
     write_index |-> 0,
     count |-> 0,
     \* (capacity & (capacity - 1)) == 0
     _mask |-> IF BitAnd(capacity, capacity - 1) = 0 THEN capacity - 1 ELSE NoMask]

\* list[k] on a list of length n: valid for -n <= k < n
ListIndexOk(n, k) == (0 - n) <= k /\ k < n

\* self.buffer[k], k a valid index
BufferAt(b, k) ==
    LET p == IF k < 0 THEN k + b.capacity ELSE k
    IN  IF (p + 1) \in DOMAIN b.buffer THEN b.buffer[p + 1] ELSE Placeholder

\* self.buffer[k] = pair  (cells are kept as a sequence of the cells written so
\* far: the write index visits 0, 1, 2, ... in order)
BufferSet(b, k, pair) ==
    IF (k + 1) \in DOMAIN b.buffer
    THEN [b.buffer EXCEPT ![k + 1] = pair]
    ELSE [i \in 1..(k + 1) |->
            IF i = k + 1 THEN pair
            ELSE IF i \in DOMAIN b.buffer THEN b.buffer[i] ELSE Placeholder]

\* (x) & self._mask  or  (x) % self.capacity
Wrap(b, x) ==
    IF b._mask # NoMask THEN BitAnd(x, b._mask) ELSE x % b.capacity

\* append without the saturation of count
append_unsaturated(b, time, value) ==
    [b EXCEPT
        !.buffer = BufferSet(b, b.write_index, <<time, value>>),
        !.write_index = Wrap(b, b.write_index + 1),
        !.count = b.count + 1]

append(b, time, value) ==
    [b EXCEPT
        !.buffer = BufferSet(b, b.write_index, <<time, value>>),
        !.write_index = Wrap(b, b.write_index + 1),
        !.count = IF b.count < b.capacity THEN b.count + 1 ELSE b.count]

get(b, index) ==
    IF index < 0 \/ index >= b.count
    THEN Raise("IndexError")
    ELSE Ok(BufferAt(b, Wrap(b, b.write_index - b.count + index)))

get_all(b) ==
    IF b.count = 0 THEN Ok(<<>>)
    ELSE IF b.write_index >= b.count
    THEN LET start == b.write_index - b.count
         IN  IF \A i \in 0..(b.count - 1) : ListIndexOk(b.capacity, start + i)
             THEN Ok([k \in 1..b.count |-> BufferAt(b, start + k - 1)])
             ELSE Raise("IndexError")
    ELSE LET first_part_size == b.capacity - (b.write_index - b.count)
             start_idx == b.capacity - (b.count - b.write_index)
             second_part_size == b.count - first_part_size
         IN  IF /\ \A i \in 0..(first_part_size - 1) :
                      /\ ListIndexOk(b.capacity, start_idx + i)
                      /\ ListIndexOk(b.count, i)
                /\ \A i \in 0..(second_part_size - 1) :
                      /\ ListIndexOk(b.capacity, i)
                      /\ ListIndexOk(b.count, first_part_size + i)
             THEN Ok([k \in 1..b.count |->
                        IF k - 1 < first_part_size
                        THEN BufferAt(b, start_idx + k - 1)
                        ELSE BufferAt(b, k - 1 - first_part_size)])
             ELSE Raise("IndexError")

get_range(b, start_index, end_index) ==
    IF start_index < 0 \/ end_index > b.count \/ start_index > end_index
    THEN Raise("IndexError")
    ELSE
    LET range_size == end_index - start_index
        phys_start == Wrap(b, b.write_index - b.count + start_index)
        phys_end == Wrap(b, b.write_index - b.count + end_index)
    IN  IF range_size = 0 THEN Ok(<<>>)
        ELSE IF phys_start <= phys_end \/ (phys_start > phys_end /\ phys_end <= phys_start)
        THEN IF phys_start < phys_end
             THEN IF \A i \in 0..(range_size - 1) : ListIndexOk(b.capacity, phys_start + i)
                  THEN Ok([k \in 1..range_size |-> BufferAt(b, phys_start + k - 1)])
                  ELSE Raise("IndexError")
             ELSE LET first_part == b.capacity - phys_start
                  IN  IF /\ \A i \in 0..(first_part - 1) :
                               /\ ListIndexOk(b.capacity, phys_start + i)
                               /\ ListIndexOk(range_size, i)
                         /\ \A i \in 0..(phys_end - 1) :
                               /\ ListIndexOk(b.capacity, i)
                               /\ ListIndexOk(range_size, first_part + i)
                      THEN Ok([k \in 1..range_size |->
                                 IF k - 1 < first_part
                                 THEN BufferAt(b, phys_start + k - 1)
                                 ELSE IF k - 1 - first_part < phys_end
                                 THEN BufferAt(b, k - 1 - first_part)
                                 ELSE Placeholder])
                      ELSE Raise("IndexError")
        ELSE Ok([k \in 1..range_size |-> BufferAt(b, Wrap(b, phys_start + k - 1))])

size(b) == b.count

clear(b) == [b EXCEPT !.write_index = 0, !.count = 0]

(***************************************************************************)
(* SensorDataStorage                                                       *)
(***************************************************************************)
DisplayDuration == {30, 60, 120, 300, 600}

\* int(f * x) for the rational f = <<num, den>> and an integer x >= 0
IntOfProduct(f, x) == (f[1] * x) \div f[2]

SensorDataStorage(sensor_count, sampling_frequency) ==
    LET points_per_30s == IntOfProduct(sampling_frequency, 30)
        total_capacity == points_per_30s * 20
    IN  [sensor_count |-> sensor_count,
         sampling_frequency |-> sampling_frequency,
         total_capacity |-> total_capacity,
         buffers |-> [i \in 0..(sensor_count - 1) |-> CircularBuffer(total_capacity)],
         reference_points_count |-> points_per_30s]

\* self._precomputed_windows.get(window_seconds): fixed at construction
NoWindow == [max_points |-> 0, offsets |-> <<>>]

\* the offsets without the last one being moved to the end of the window
_precomputed_windows_unpinned(s, window_seconds) ==
    IF window_seconds \notin DisplayDuration THEN NoWindow
    ELSE
    LET max_points_in_window == IntOfProduct(s.sampling_frequency, window_seconds)
        target_points == s.reference_points_count
    IN  IF target_points <= 0 \/ max_points_in_window <= 0 THEN NoWindow
        ELSE [max_points |-> max_points_in_window,
              offsets |-> [k \in 1..target_points |->
                             ((k - 1) * max_points_in_window) \div target_points]]

_precomputed_windows(s, window_seconds) ==
    IF window_seconds \notin DisplayDuration THEN NoWindow
    ELSE
    LET max_points_in_window == IntOfProduct(s.sampling_frequency, window_seconds)
        target_points == s.reference_points_count
    IN  IF target_points <= 0 \/ max_points_in_window <= 0 THEN NoWindow
        ELSE [max_points |-> max_points_in_window,
              offsets |-> [k \in 1..target_points |->
                             IF k - 1 = target_points - 1
                             THEN max_points_in_window - 1
                             ELSE ((k - 1) * max_points_in_window) \div target_points]]

storage_append(s, sensor_idx, time, value) ==
    IF sensor_idx < 0 \/ sensor_idx >= s.sensor_count
    THEN Raise("ValueError")
    ELSE Ok([s EXCEPT !.buffers[sensor_idx] = append(s.buffers[sensor_idx], time, value)])

\* the results of a list of get() calls, or the first exception
Collect(results) ==
    IF \A k \in DOMAIN results : results[k].ok
    THEN Ok([k \in DOMAIN results |-> results[k].val])
    ELSE Raise("IndexError")

\* a query that returns every stored sample, whatever the window
get_data_for_window_seconds_unsampled(s, sensor_idx, window_seconds) ==
    get_range(s.buffers[sensor_idx], 0, size(s.buffers[sensor_idx]))

get_data_for_window_seconds(s, sensor_idx, window_seconds) ==
    IF sensor_idx < 0 \/ sensor_idx >= s.sensor_count THEN Raise("ValueError")
    ELSE
    LET window_info == _precomputed_windows(s, window_seconds)
        buffer == s.buffers[sensor_idx]
        max_points_in_window == window_info.max_points
        offsets == window_info.offsets
        available_points == Min(size(buffer), max_points_in_window)
        target_points == s.reference_points_count
    IN  IF window_info = NoWindow THEN Raise("ValueError")
        ELSE IF size(buffer) = 0 THEN Ok(<<>>)
        ELSE IF available_points <= target_points
        THEN get_range(buffer, size(buffer) - available_points, size(buffer))
        ELSE IF available_points >= max_points_in_window
        THEN LET window_start_idx == size(buffer) - max_points_in_window
             IN  Collect([k \in 1..Len(offsets) |->
                            get(buffer, window_start_idx + offsets[k])])
        ELSE LET start_idx == size(buffer) - available_points
             IN  Collect([k \in 1..target_points |->
                            get(buffer,
                                IF k - 1 = target_points - 1
                                THEN start_idx + available_points - 1
                                ELSE start_idx + ((k - 1) * available_points) \div target_points)])

\* clear_all that leaves the buffers as they are
clear_all_keeping(s) == s

\* SensorDataStorage.clear_all
clear_all(s) ==
    [s EXCEPT !.buffers = [i \in DOMAIN s.buffers |-> clear(s.buffers[i])]]

(***************************************************************************)
(* Values of the variables of a component that a specification leaves out  *)
(***************************************************************************)
NoOut == [op |-> "none", args |-> <<>>, res |-> Ok(<<>>)]

\* a buffer constructed with one of the capacities
CBInit(capacities) ==
    /\ \E capacity \in capacities : cb = CircularBuffer(capacity)
    /\ cb_log = <<>>
    /\ cb_out = NoOut

\* a storage of one sensor constructed with one of the sampling frequencies
SDSInit(frequencies) ==
    /\ \E f \in frequencies : sds = SensorDataStorage(1, f)
    /\ sds_log = <<>>
    /\ sds_out = NoOut

(***************************************************************************)
(* TestManager: data                                                       *)
(***************************************************************************)

\* The members of SensorId in the order of their values 0..6, as the test
\* manager, the configuration loader and the sensor manager use them.
SensorNames == <<"FORCE", "DISP_1", "DISP_2", "DISP_3", "DISP_4", "DISP_5", "ARC">>
SensorId == 0..(Len(SensorNames) - 1)
FORCE == 0
DISP_1 == 1
ARC == 6

\* sorted([sensor.name for sensor in SensorId]) as sensor values
SortedSensorIds == <<6, 1, 2, 3, 4, 5, 0>>

PROCESSING_RATE == <<4, 1>>
SENSOR_SAMPLING_FREQ == <<5, 1>>

time_decimals == 3
force_decimals == 2
disp_decimals == 6

\* float values: a number in units of 10^-6, or NaN
Num(v) == [v |-> v, nan |-> FALSE]
NaN == [nan |-> TRUE]

\* text of a CSV cell: a literal, or the digits of a fixed-point number
Text(str) == [text |-> str]

RECURSIVE Pow10(_)
Pow10(n) == IF n = 0 THEN 1 ELSE 10 * Pow10(n - 1)

\* f"{x:.{decimals}f}" for x in units of 10^-6 (rounding to nearest)
FormatFixed(x, decimals) ==
    LET q == Pow10(6 - decimals)
    IN  [decimals |-> decimals, digits |-> (2 * x + q) \div (2 * q)]

FormatFloat(val, decimals) ==
    IF val.nan THEN Text("nan") ELSE FormatFixed(val.v, decimals)

NoDir == [timestamp |-> 0 - 1, safe_id |-> <<>>]
NoTest == [test_id |-> NoDir, date |-> ""]
NoFile == [dir |-> NoDir, name |-> ""]
FileHandle(dir, name) == [dir |-> dir, name |-> name]

\* the characters of a test id that prepare_test keeps (c.isalnum() or
\* c in ('-','_')), among those of the ids the model draws
RECURSIVE Sanitize(_)
Sanitize(id) ==
    IF id = <<>> THEN <<>>
    ELSE IF Head(id) \in {"r", "u", "n", "1", "t", "e", "s", "-", "_"}
         THEN <<Head(id)>> \o Sanitize(Tail(id))
         ELSE Sanitize(Tail(id))

\* datetime.now().strftime("%Y%m%d_%H%M%S"): the clock at one second resolution
Strftime(t) == t \div 1000000

(***************************************************************************)
(* The test data directory                                                 *)
(***************************************************************************)
\* open(path, 'w') followed by writes: the file holds exactly these lines
WriteFile(dk, dir, name, lines) ==
    [dk EXCEPT ![dir] =
        [n \in DOMAIN dk[dir] \cup {name} |-> IF n = name THEN lines ELSE dk[dir][n]]]

\* a write through an open handle; it is lost to the test data directory
\* when the file was unlinked or moved away since it was opened
AppendLine(dk, file, line) ==
    IF file.dir \in DOMAIN dk /\ file.name \in DOMAIN dk[file.dir]
    THEN [dk EXCEPT ![file.dir][file.name] = Append(dk[file.dir][file.name], line)]
    ELSE dk

\* shutil.rmtree(dir), or dir moved out of the test data directory
RemoveDir(dk, dir) == [d \in DOMAIN dk \ {dir} |-> dk[d]]

\* a file object whose close() raised: it is closed and still referenced
ClosedFile(file) == [dir |-> file.dir, name |-> file.name, closed |-> TRUE]

IsClosed(file) == "closed" \in DOMAIN file

DataHeader == [k \in 1..(2 + Len(SortedSensorIds)) |->
                 IF k = 1 THEN Text("timestamp")
                 ELSE IF k = 2 THEN Text("relative_time")
                 ELSE Text(SensorNames[SortedSensorIds[k - 2] + 1])]

(***************************************************************************)
(* TestManager: operations                                                 *)
(***************************************************************************)
get_test_state ==
    IF is_running THEN "RUNNING"
    ELSE IF is_stopped THEN "STOPPED"
    ELSE IF current_test # NoTest THEN "PREPARED"
    ELSE "NOTHING"

\* the status the router of /test answers with (routers/test.py)
HttpStatus(op, exc) ==
    IF exc = "None" THEN IF op \in {"get_history", "get_sensor_history"} THEN 200 ELSE 204
    ELSE IF exc = "RuntimeError" THEN 409
    ELSE IF exc = "ValueError" /\ op \in {"start", "finalize", "get_sensor_history"} THEN 400
    ELSE 500

Call(op, exc) ==
    [op |-> op, exc |-> exc, status |-> HttpStatus(op, exc), before |-> get_test_state]

Event(topic) ==
    [op |-> topic, exc |-> "None", status |-> 0, before |-> get_test_state]

\* the test history a scan of the disk yields while `current` is the current test
reload_history(dk, current) ==
    {[dk[d]["metadata.json"][1] EXCEPT !.test_id = d] :
        d \in {x \in DOMAIN dk : x # current.test_id /\ "metadata.json" \in DOMAIN dk[x]}}

TestManagerInit ==
    /\ current_test = NoTest
    /\ is_running = FALSE
    /\ is_stopped = FALSE
    \* effective_freq = min(PROCESSING_RATE, SENSOR_SAMPLING_FREQ)
    /\ data_storage =
          SensorDataStorage(Len(SensorNames),
              IF PROCESSING_RATE[1] * SENSOR_SAMPLING_FREQ[2]
                     <= SENSOR_SAMPLING_FREQ[1] * PROCESSING_RATE[2]
              THEN PROCESSING_RATE ELSE SENSOR_SAMPLING_FREQ)
    /\ start_time = 0
    /\ raw_file = NoFile
    /\ csv_file = NoFile
    /\ csv_writer = "None"
    /\ raw_csv_file = NoFile
    /\ raw_csv_writer = "None"
    /\ current_test_dir = NoDir
    /\ graphique_images = FALSE
    /\ disk = <<>>
    /\ test_history = reload_history(<<>>, NoTest)
    /\ now = 0
    /\ last = [op |-> "init", exc |-> "None", status |-> 0, before |-> "NOTHING"]
    /\ recorded = 0
    /\ finalized = {}

\* a call that returns or raises before it has changed anything
Returns(op, exc) ==
    /\ last' = Call(op, exc)
    /\ UNCHANGED <<current_test, is_running, is_stopped, test_history, data_storage,
                   start_time, raw_file, csv_file, csv_writer, raw_csv_file,
                   raw_csv_writer, current_test_dir, graphique_images, disk, now,
                   ringvars, compvars, svcvars>>

prepare_test(metadata) ==
    IF is_running
    THEN Returns("prepare", "RuntimeError")
    ELSE LET kept == Sanitize(metadata.test_id)
             safe_id == IF kept = <<>> THEN <<"t", "e", "s", "t">> ELSE kept
             final_id == [timestamp |-> Strftime(now), safe_id |-> safe_id]
             meta == [metadata EXCEPT !.test_id = final_id]
             description == [date |-> metadata.date, title |-> final_id]
             \* os.makedirs(self.current_test_dir, exist_ok=True)
             made == IF final_id \in DOMAIN disk THEN disk
                     ELSE [d \in DOMAIN disk \cup {final_id} |->
                             IF d = final_id THEN <<>> ELSE disk[d]]
         IN  /\ current_test' = meta
             /\ current_test_dir' = final_id
             /\ disk' = WriteFile(
                            WriteFile(made,
                                      final_id, "metadata.json", <<meta>>),
                            final_id, "description.md", <<description>>)
             /\ last' = Call("prepare", "None")
             /\ UNCHANGED <<is_running, is_stopped, test_history, data_storage,
                            start_time, raw_file, csv_file, csv_writer, raw_csv_file,
                            raw_csv_writer, graphique_images, now, ringvars, compvars, svcvars>>

start_test ==
    IF is_running
    THEN Returns("start", "RuntimeError")
    ELSE IF current_test = NoTest
    THEN Returns("start", "ValueError")
    ELSE IF current_test_dir = NoDir
    THEN Returns("start", "RuntimeError")
    ELSE IF current_test_dir \notin DOMAIN disk
    THEN Returns("start", "FileNotFoundError")
    ELSE /\ raw_file' = FileHandle(current_test_dir, "raw.log")
         /\ csv_file' = FileHandle(current_test_dir, "data.csv")
         /\ csv_writer' = "None"
         /\ raw_csv_file' = FileHandle(current_test_dir, "raw_data.csv")
         /\ raw_csv_writer' = "None"
         /\ disk' = WriteFile(
                        WriteFile(
                            WriteFile(disk, current_test_dir, "raw.log", <<>>),
                            current_test_dir, "data.csv", <<>>),
                        current_test_dir, "raw_data.csv", <<>>)
         /\ graphique_images' = TRUE
         /\ is_running' = TRUE
         /\ data_storage' = clear_all(data_storage)
         /\ start_time' = now
         /\ last' = Call("start", "None")
         /\ UNCHANGED <<current_test, is_stopped, test_history, current_test_dir, now,
                        ringvars, compvars, svcvars>>

\* _save_graphiques: the two PNG files of the test directory
_save_graphiques(dk) ==
    IF current_test_dir = NoDir \/ ~graphique_images THEN dk
    ELSE IF current_test_dir \notin DOMAIN dk THEN dk
    ELSE WriteFile(WriteFile(dk, current_test_dir, "graph_DISP_1.png", <<>>),
                   current_test_dir, "graph_ARC.png", <<>>)

stop_test ==
    IF current_test = NoTest \/ ~is_running
    THEN Returns("stop", "None")
    ELSE /\ raw_file' = NoFile
         /\ csv_file' = NoFile
         /\ raw_csv_file' = NoFile
         /\ csv_writer' = IF raw_csv_file # NoFile THEN "None" ELSE csv_writer
         /\ disk' = _save_graphiques(disk)
         /\ is_running' = FALSE
         /\ is_stopped' = TRUE
         /\ last' = Call("stop", "None")
         /\ UNCHANGED <<current_test, test_history, data_storage, start_time,
                        raw_csv_writer, current_test_dir, graphique_images, now,
                        ringvars, compvars, svcvars>>

finalize_test ==
    IF current_test = NoTest
    THEN Returns("finalize", "ValueError")
    ELSE IF ~is_stopped
    THEN Returns("finalize", "RuntimeError")
    ELSE /\ graphique_images' = FALSE
         /\ data_storage' = clear_all(data_storage)
         /\ current_test' = NoTest
         /\ current_test_dir' = NoDir
         /\ is_stopped' = FALSE
         /\ test_history' = reload_history(disk, NoTest)
         /\ last' = Call("finalize", "None")
         /\ UNCHANGED <<is_running, start_time, raw_file, csv_file, csv_writer,
                        raw_csv_file, raw_csv_writer, disk, now, ringvars, compvars, svcvars>>

\* a call that answers: the call, its outcome and what it returned or raised
Answer(op, args, res, status) ==
    [op |-> op, args |-> args, res |-> res,
     exc |-> IF res.ok THEN "None" ELSE res.err, status |-> status,
     before |-> get_test_state]

\* archive_test and delete_test leave everything but the disk and the
\* history as it is; the router of /history answers 204, or 404 when the
\* manager returns False (routers/history.py)
HistoryCall(op, test_id, res) ==
    /\ last' = Answer(op, <<test_id>>, res,
                       IF ~res.ok THEN 500 ELSE IF res.val THEN 204 ELSE 404)
    /\ UNCHANGED <<current_test, is_running, is_stopped, data_storage, start_time,
                   raw_file, csv_file, csv_writer, raw_csv_file, raw_csv_writer,
                   current_test_dir, graphique_images, now, ringvars, compvars, svcvars>>

\* archive_test; the archive directory is outside the test data directory,
\* and dst_taken tells that it already holds test_id/test_id, which makes
\* shutil.move raise
archive_test(test_id, dst_taken) ==
    IF test_id \in DOMAIN disk
    THEN IF dst_taken
         THEN /\ UNCHANGED <<disk, test_history>>
              /\ HistoryCall("archive", test_id, Raise("shutil.Error"))
         ELSE /\ disk' = RemoveDir(disk, test_id)
              /\ test_history' = reload_history(disk', current_test)
              /\ HistoryCall("archive", test_id, Ok(TRUE))
    ELSE /\ UNCHANGED <<disk, test_history>>
         /\ HistoryCall("archive", test_id, Ok(FALSE))

delete_test(test_id) ==
    IF test_id \in DOMAIN disk
    THEN /\ disk' = RemoveDir(disk, test_id)
         /\ test_history' = reload_history(disk', current_test)
         /\ HistoryCall("delete", test_id, Ok(TRUE))
    ELSE /\ UNCHANGED <<disk, test_history>>
         /\ HistoryCall("delete", test_id, Ok(FALSE))

\* a query leaves everything but the history as it is
Query(op, args, res) ==
    /\ last' = Answer(op, args, res,
                       HttpStatus(op, IF res.ok THEN "None" ELSE res.err))
    /\ UNCHANGED <<current_test, is_running, is_stopped, data_storage, start_time,
                   raw_file, csv_file, csv_writer, raw_csv_file, raw_csv_writer,
                   current_test_dir, graphique_images, disk, now,
                   ringvars, compvars, svcvars>>

get_history ==
    /\ test_history' = reload_history(disk, current_test)
    /\ Query("get_history", <<>>, Ok(test_history'))

\* get_sensor_history that answers in every state
get_sensor_history_ungated(sensor_id, window_seconds) ==
    /\ Query("get_sensor_history", <<sensor_id, window_seconds>>,
             get_data_for_window_seconds(data_storage, sensor_id, window_seconds))
    /\ UNCHANGED test_history

get_sensor_history(sensor_id, window_seconds) ==
    /\ Query("get_sensor_history", <<sensor_id, window_seconds>>,
             IF ~(is_running \/ is_stopped)
             THEN Raise("RuntimeError")
             ELSE get_data_for_window_seconds(data_storage, sensor_id, window_seconds))
    /\ UNCHANGED test_history

\* stop_test when close() of the named file raises: the files before it are
\* closed and forgotten, the exception leaves stop_test
stop_test_close_raises(name) ==
    /\ current_test # NoTest
    /\ is_running
    /\ LET file == IF name = "raw.log" THEN raw_file
                   ELSE IF name = "data.csv" THEN csv_file
                   ELSE raw_csv_file
       IN  file # NoFile /\ ~IsClosed(file)
    /\ raw_file' = IF name = "raw.log" THEN ClosedFile(raw_file) ELSE NoFile
    /\ csv_file' = IF name = "raw.log" THEN csv_file
                   ELSE IF name = "data.csv" THEN ClosedFile(csv_file)
                   ELSE NoFile
    /\ raw_csv_file' = IF name = "raw_data.csv" THEN ClosedFile(raw_csv_file)
                       ELSE raw_csv_file
    /\ last' = Call("stop", "OSError")
    /\ UNCHANGED <<current_test, is_running, is_stopped, test_history, data_storage,
                   start_time, csv_writer, raw_csv_writer, current_test_dir,
                   graphique_images, disk, now, ringvars, compvars, svcvars>>

(***************************************************************************)
(* TestManager: event handlers                                             *)
(***************************************************************************)
Ignores(topic) ==
    /\ last' = Event(topic)
    /\ UNCHANGED <<current_test, is_running, is_stopped, test_history, data_storage,
                   start_time, raw_file, csv_file, csv_writer, raw_csv_file,
                   raw_csv_writer, current_test_dir, graphique_images, disk, now,
                   ringvars, compvars, svcvars>>

_on_serial_data(line) ==
    IF is_running /\ raw_file # NoFile
    THEN /\ disk' = IF IsClosed(raw_file) THEN disk
                    ELSE AppendLine(disk, raw_file, [line |-> line, ts |-> now])
         /\ last' = Event("serial_data")
         /\ UNCHANGED <<current_test, is_running, is_stopped, test_history,
                        data_storage, start_time, raw_file, csv_file, csv_writer,
                        raw_csv_file, raw_csv_writer, current_test_dir,
                        graphique_images, now, ringvars, compvars, svcvars>>
    ELSE Ignores("serial_data")

_on_raw_sensor_data(sensor_data) ==
    IF ~is_running \/ raw_csv_file = NoFile
    THEN Ignores("sensor_raw_update")
    ELSE LET t == sensor_data.timestamp
             rel_time == t - start_time
             with_header == IF raw_csv_writer = "None"
                            THEN AppendLine(disk, raw_csv_file,
                                     <<Text("timestamp"), Text("relative_time"),
                                       Text("sensor_id"), Text("raw_value")>>)
                            ELSE disk
             _format_raw_value(sid_name, val) ==
                 IF sid_name = FORCE THEN FormatFloat(val, force_decimals)
                 ELSE IF sid_name \in SensorId THEN FormatFloat(val, disp_decimals)
                 ELSE FormatFloat(val, force_decimals)
             row == <<FormatFixed(t, time_decimals),
                      FormatFixed(rel_time, time_decimals),
                      Text(<<"SensorId", SensorNames[sensor_data.sensor_id + 1]>>),
                      _format_raw_value(sensor_data.sensor_id, sensor_data.value)>>
         IN  /\ raw_csv_writer' = "DictWriter"
             /\ disk' = IF IsClosed(raw_csv_file) THEN disk
                        ELSE AppendLine(with_header, raw_csv_file, row)
             /\ last' = Event("sensor_raw_update")
             /\ UNCHANGED <<current_test, is_running, is_stopped, test_history,
                            data_storage, start_time, raw_file, csv_file, csv_writer,
                            raw_csv_file, current_test_dir, graphique_images, now,
                            ringvars, compvars, svcvars>>

\* the epsilon 1e-6, in microseconds
Epsilon == 1

\* _on_processed_data once the test is known to be running
RecordFrame(frame) ==
    LET t == frame.timestamp
        rel_time == t - start_time
        values == frame.values
        with_header == IF csv_writer = "None"
                       THEN AppendLine(disk, csv_file, DataHeader)
                       ELSE disk
        \* the cell of one sensor column of data.csv
        FormatValue(sensor_id, val) ==
            IF sensor_id = FORCE THEN FormatFloat(val, force_decimals)
            ELSE IF sensor_id \in SensorId THEN FormatFloat(val, disp_decimals)
            ELSE FormatFloat(val, force_decimals)
        row == [k \in 1..(2 + Len(SortedSensorIds)) |->
                  IF k = 1 THEN FormatFixed(t, time_decimals)
                  ELSE IF k = 2 THEN FormatFixed(rel_time, time_decimals)
                  ELSE FormatValue(SortedSensorIds[k - 2], values[SortedSensorIds[k - 2]])]
        \* 1.0 / sampling_frequency, in microseconds
        spacing == (1000000 * data_storage.sampling_frequency[2])
                       \div data_storage.sampling_frequency[1]
        \* the rate-limited append of one frame value to the buffer of its sensor
        StoreFrameValue(buffer, val) ==
            IF size(buffer) = 0
            THEN append(buffer, rel_time, val)
            ELSE LET last_time == get(buffer, size(buffer) - 1).val[1]
                     expected_time == last_time + spacing
                 IN  IF rel_time + Epsilon >= expected_time
                     THEN append(buffer, rel_time, val)
                     ELSE buffer
    IN  /\ IF csv_file # NoFile
           THEN /\ csv_writer' = "DictWriter"
                /\ disk' = IF IsClosed(csv_file) THEN disk
                           ELSE AppendLine(with_header, csv_file, row)
           ELSE UNCHANGED <<csv_writer, disk>>
        /\ data_storage' =
              IF csv_file # NoFile /\ IsClosed(csv_file)
              THEN data_storage
              ELSE [data_storage EXCEPT !.buffers =
                      [i \in DOMAIN data_storage.buffers |->
                          StoreFrameValue(data_storage.buffers[i], values[i])]]
        /\ last' = Event("processed_data")
        /\ UNCHANGED <<current_test, is_running, is_stopped, test_history, start_time,
                       raw_file, csv_file, raw_csv_file, raw_csv_writer,
                       current_test_dir, graphique_images, now, ringvars, compvars, svcvars>>

\* _on_processed_data without its guard on is_running
_on_processed_data_ungated(frame) == RecordFrame(frame)

_on_processed_data(frame) ==
    IF ~is_running THEN Ignores("processed_data") ELSE RecordFrame(frame)

(***************************************************************************)
(* SensorManager (core/services/sensor_manager.py)                         *)
(*                                                                         *)
(* A serial line is a sequence of whitespace separated parts.  A part is   *)
(* a word that float() rejects, a number, "usSenderId=<id>" or             *)
(* "Val=<text>" whose text float() accepts (ok) or rejects.                *)
(***************************************************************************)
Word(text) == [v |-> 0, ok |-> FALSE, text |-> text, kind |-> "word"]
Number(v) == [v |-> v, ok |-> TRUE, text |-> "", kind |-> "float"]
SenderPart(id) == [v |-> 0, ok |-> FALSE, text |-> id, kind |-> "usSenderId="]
ValPart(v) == [v |-> v, ok |-> TRUE, text |-> "", kind |-> "Val="]

\* float(part.split("=")[1]) of a part that starts with "Val="
FloatOfVal(part) ==
    IF part.ok THEN Ok(Num(part.v)) ELSE Raise("ValueError")

\* a - b on floats
FSub(a, b) == IF a.nan \/ b.nan THEN NaN ELSE Num(a.v - b.v)

\* a + b on floats
FAdd(a, b) == IF a.nan \/ b.nan THEN NaN ELSE Num(a.v + b.v)

SensorData(topic, sensor_id, value) ==
    [value |-> value, topic |-> topic, sensor_id |-> sensor_id]

\* the result of a handler: the manager afterwards and the events it sent
Handled(m, out) == [m |-> m, out |-> out]

\* _notify publishing the calibrated value before the raw one
_notify_calibrated_first(m, sensor_id, value) ==
    LET offset == m.offsets[sensor_id]
        corrected_value == FSub(value, offset)
    IN  Handled([m EXCEPT !.sensors[sensor_id] = corrected_value],
                <<SensorData("sensor_update", sensor_id, corrected_value),
                  SensorData("sensor_raw_update", sensor_id, value)>>)

_notify(m, sensor_id, value) ==
    LET offset == m.offsets[sensor_id]
        corrected_value == FSub(value, offset)
    IN  Handled([m EXCEPT !.sensors[sensor_id] = corrected_value],
                <<SensorData("sensor_raw_update", sensor_id, value),
                  SensorData("sensor_update", sensor_id, corrected_value)>>)

_parse_force(m, sensorId, line) ==
    IF Len(line) >= 5
    THEN LET \* float(parts[4])
             val == IF line[5].kind = "float" THEN Ok(Num(line[5].v))
                    ELSE Raise("ValueError")
         IN  IF val.ok THEN _notify(m, sensorId, val.val) ELSE Handled(m, <<>>)
    ELSE Handled(m, <<>>)

NoVal == [none |-> TRUE]

\* the loop of _parse_motion over parts[k..]: the last sender id and the
\* last value that parses
RECURSIVE ScanParts(_, _, _, _)
ScanParts(parts, k, sender_id, val) ==
    IF k > Len(parts) THEN [val |-> val, sender_id |-> sender_id]
    ELSE IF parts[k].kind = "usSenderId="
    THEN ScanParts(parts, k + 1, parts[k].text, val)
    ELSE IF parts[k].kind = "Val="
    THEN ScanParts(parts, k + 1, sender_id,
                   IF FloatOfVal(parts[k]).ok THEN FloatOfVal(parts[k]).val ELSE val)
    ELSE ScanParts(parts, k + 1, sender_id, val)

_parse_motion(m, sensorId, line) ==
    LET found == ScanParts(line, 1, "None", NoVal)
    IN  IF found.sender_id \notin {"None", ""} /\ found.val # NoVal
        THEN _notify(m, sensorId, found.val)
        ELSE Handled(m, <<>>)

DISP_2 == 2
DISP_3 == 3
DISP_4 == 4
DISP_5 == 5

\* SensorManager._on_serial_data
sm_on_serial_data(m, line) ==
    IF ~m.emulation_mode
    THEN LET sensorId == line[1]
             line_str == line[2]
         IN  IF sensorId = FORCE THEN _parse_force(m, sensorId, line_str)
             ELSE IF sensorId \in {DISP_1, DISP_2, DISP_3, DISP_4, DISP_5}
             THEN _parse_motion(m, sensorId, line_str)
             ELSE Handled(m, <<>>)
    ELSE Handled(m, <<>>)

\* SensorManager._on_command
sm_on_command(m, command) ==
    IF command.action = "zero" /\ command.sensor_id \in SensorId
    THEN LET current_val == m.sensors[command.sensor_id]
             old_offset == m.offsets[command.sensor_id]
         IN  [m EXCEPT !.offsets[command.sensor_id] = FAdd(old_offset, current_val)]
    ELSE m

\* the serial id configured for each displacement sensor (sensors_config.json)
serialId ==
    [i \in SensorId |-> IF i = DISP_1 THEN "0x2E01"
                        ELSE IF i = DISP_2 THEN "0x2E02" ELSE ""]

\* a sensor manager constructed in one of the modes; the emulation thread
\* is outside _notify
SMInit(modes) ==
    /\ \E emulation \in modes :
          sm = [offsets |-> [i \in SensorId |-> Num(0)],
                sensors |-> [i \in SensorId |-> Num(0)],
                emulation_mode |-> emulation]
    /\ sm_notify = [busy |-> FALSE]
    /\ sm_pub = <<>>
    /\ sm_env = [log |-> <<>>, zeros |-> 0,
                 last_raw |-> [i \in SensorId |-> NoVal],
                 zero_ref |-> [i \in SensorId |-> NoVal]]

(***************************************************************************)
(* DataProcessor (core/processing/data_processor.py)                       *)
(***************************************************************************)
\* a / 2 on floats (the values of the model are even, so that the quotient
\* is exact)
FHalf(a) == IF a.nan THEN NaN ELSE Num(a.v \div 2)

\* SensorManager.is_sensor_connected; tasks tells for each sensor whether
\* the configuration enables it (emulation mode) or whether it has a sensor
\* task that is connected (hardware mode; ARC never has one)
is_sensor_connected(emulation_mode, tasks, sensor_id) ==
    IF emulation_mode
    THEN tasks[sensor_id]
    ELSE IF sensor_id = ARC
         THEN tasks[DISP_1] /\ tasks[DISP_2] /\ tasks[DISP_3]
         ELSE tasks[sensor_id]

\* _on_raw_update giving up the cached value at the second NaN in a row
_on_raw_update_second_nan(d, data) ==
    IF ~data.value.nan
    THEN [d EXCEPT !.nan_counts[data.sensor_id] = 0,
                   !.latest_values[data.sensor_id] = data.value]
    ELSE LET counted == [d EXCEPT !.nan_counts[data.sensor_id] = @ + 1]
         IN  IF counted.nan_counts[data.sensor_id] > 1
             THEN [counted EXCEPT !.latest_values[data.sensor_id] = NaN]
             ELSE counted

\* DataProcessor._on_raw_update
_on_raw_update(d, data) ==
    IF ~data.value.nan
    THEN [d EXCEPT !.nan_counts[data.sensor_id] = 0,
                   !.latest_values[data.sensor_id] = data.value]
    ELSE LET counted == [d EXCEPT !.nan_counts[data.sensor_id] = @ + 1]
         IN  IF counted.nan_counts[data.sensor_id] > 2
             THEN [counted EXCEPT !.latest_values[data.sensor_id] = NaN]
             ELSE counted

\* one turn of _process_loop that computes ARC before the values of the
\* disconnected sensors are replaced by NaN
_process_loop_early_arc(d, emulation_mode, tasks, start_loop) ==
    LET latest_values ==
            [i \in SensorId |-> IF ~is_sensor_connected(emulation_mode, tasks, i)
                                THEN NaN ELSE d.latest_values[i]]
        arc_value == FSub(d.latest_values[DISP_1],
                          FHalf(FAdd(d.latest_values[DISP_2],
                                     d.latest_values[DISP_3])))
        values_copy == [latest_values EXCEPT ![ARC] = arc_value]
    IN  [d |-> [d EXCEPT !.latest_values = latest_values],
         frame |-> [timestamp |-> start_loop, values |-> values_copy]]

\* one turn of _process_loop: the data processor afterwards and the frame
_process_loop(d, emulation_mode, tasks, start_loop) ==
    LET latest_values ==
            [i \in SensorId |-> IF ~is_sensor_connected(emulation_mode, tasks, i)
                                THEN NaN ELSE d.latest_values[i]]
        arc_value == FSub(latest_values[DISP_1],
                          FHalf(FAdd(latest_values[DISP_2], latest_values[DISP_3])))
        values_copy == [latest_values EXCEPT ![ARC] = arc_value]
    IN  [d |-> [d EXCEPT !.latest_values = latest_values],
         frame |-> [timestamp |-> start_loop, values |-> values_copy]]

NoFrame == [timestamp |-> 0 - 1, values |-> <<>>]

DPInit ==
    /\ dp = [nan_counts |-> [i \in SensorId |-> 0],
             latest_values |-> [i \in SensorId |-> Num(0)]]
    /\ dp_frame = NoFrame
    /\ dp_connected = [i \in SensorId |-> TRUE]

(***************************************************************************)
(* SensorHealthMonitor and SensorReconnectionManager                       *)
(* (core/sensor_reconnection.py), and the serial reader                    *)
(* (core/services/serial_handler.py)                                       *)
(*                                                                         *)
(* Delays are counted in units of 1/Scale second, which makes every        *)
(* product by backoff_multiplier below max_reconnect_delay exact.  The     *)
(* monitor keeps, for last_data_time, the whole seconds elapsed since then *)
(* (silence), saturated just above max_silence_time.                       *)
(***************************************************************************)
Scale == 512

max_silence_time == 5

initial_reconnect_delay == 1 * Scale

max_reconnect_delay == 30 * Scale

\* x * backoff_multiplier, the multiplier being 1.5
TimesBackoffMultiplier(x) == (x * 3) \div 2

\* the values of SensorState are the strings "connected", "disconnected",
\* "reconnecting" and "failed"

\* SensorHealthMonitor(sensor_id) after __post_init__
SensorHealthMonitor ==
    [silence |-> 0,
     state |-> "connected",
     reconnect_attempts |-> 0,
     current_backoff_delay |-> initial_reconnect_delay]

\* record_data that takes the monitor to CONNECTED and leaves the backoff
\* as it is
record_data_keeping_backoff(m) ==
    [m EXCEPT !.silence = 0, !.state = "connected"]

record_data(m) ==
    LET t == [m EXCEPT !.silence = 0]
    IN  IF t.state # "connected"
        THEN [t EXCEPT !.state = "connected",
                       !.reconnect_attempts = 0,
                       !.current_backoff_delay = initial_reconnect_delay]
        ELSE t

check_silence(m) == m.silence > max_silence_time

mark_disconnected(m) ==
    IF m.state # "disconnected"
    THEN [m EXCEPT !.state = "disconnected",
                   !.reconnect_attempts = 0,
                   !.current_backoff_delay = initial_reconnect_delay]
    ELSE m

mark_reconnecting(m) ==
    [m EXCEPT !.state = "reconnecting", !.reconnect_attempts = @ + 1]

\* mark_failed that leaves the state as it is
mark_failed_keeping_state(m) == m

mark_failed(m) == [m EXCEPT !.state = "failed"]

\* get_next_retry_delay without the cap
get_next_retry_delay_uncapped(m) ==
    [m |-> [m EXCEPT !.current_backoff_delay = TimesBackoffMultiplier(@)],
     delay |-> m.current_backoff_delay]

\* the delay returned and the monitor afterwards
get_next_retry_delay(m) ==
    [m |-> [m EXCEPT !.current_backoff_delay =
                         Min(TimesBackoffMultiplier(@), max_reconnect_delay)],
     delay |-> m.current_backoff_delay]

\* the reconnection task of a sensor: none, or a task that is done or not
\* and, when done, its result
NoTask == [task |-> FALSE, done |-> FALSE, result |-> FALSE]

ReconnectTask(done, result) == [task |-> TRUE, done |-> done, result |-> result]

\* add_sensor followed by register_reconnection_callback when callback holds;
\* replaced counts the reconnect_with_delay tasks that are still pending and
\* that reconnection_tasks holds no more (none at the start)
add_sensor(is_connected, callback) ==
    [task |-> NoTask,
     callback |-> callback,
     monitor |-> [SensorHealthMonitor EXCEPT
                      !.state = IF is_connected THEN "connected" ELSE "disconnected"],
     replaced |-> 0]

\* the manager afterwards and the delay of the task created, if one is
NoDelay == 0 - 1

_start_reconnection(g) ==
    IF ~g.callback
    THEN [delay |-> NoDelay, g |-> g]
    ELSE LET r == get_next_retry_delay(g.monitor)
         IN  [delay |-> r.delay,
              g |-> [g EXCEPT !.monitor = mark_reconnecting(r.m),
                              !.task = ReconnectTask(FALSE, FALSE),
                              !.replaced = IF g.task.task /\ ~g.task.done
                                           THEN @ + 1 ELSE @]]

\* _monitor_tick that goes on to start the reconnection in the tick that
\* marks the monitor disconnected
_monitor_tick_restarting(g) ==
    LET monitor == g.monitor
    IN  IF monitor.state = "connected" /\ check_silence(monitor)
        THEN _start_reconnection([g EXCEPT !.monitor = mark_disconnected(monitor)])
                 @@ [recorded |-> FALSE]
        ELSE IF monitor.state \in {"disconnected", "failed"}
        THEN _start_reconnection(g) @@ [recorded |-> FALSE]
        ELSE IF monitor.state = "reconnecting" /\ g.task.task /\ g.task.done
        THEN IF g.task.result
             THEN [recorded |-> TRUE, delay |-> NoDelay,
                   g |-> [g EXCEPT !.monitor = record_data(monitor),
                                   !.task = NoTask]]
             ELSE [recorded |-> FALSE, delay |-> NoDelay,
                   g |-> [g EXCEPT !.monitor = mark_failed(monitor),
                                   !.task = NoTask]]
        ELSE [recorded |-> FALSE, delay |-> NoDelay, g |-> g]

\* _monitor_tick for the sensor: the manager afterwards, the delay of the
\* reconnection started (or NoDelay) and whether record_data was called
_monitor_tick(g) ==
    LET monitor == g.monitor
    IN  IF monitor.state = "connected" /\ check_silence(monitor)
        THEN [recorded |-> FALSE, delay |-> NoDelay,
              g |-> [g EXCEPT !.monitor = mark_disconnected(monitor)]]
        ELSE IF monitor.state = "disconnected"
        THEN _start_reconnection(g) @@ [recorded |-> FALSE]
        ELSE IF monitor.state = "reconnecting"
        THEN IF g.task.task /\ g.task.done
             THEN IF g.task.result
                  THEN [recorded |-> TRUE, delay |-> NoDelay,
                        g |-> [g EXCEPT !.monitor = record_data(monitor),
                                        !.task = NoTask]]
                  ELSE [recorded |-> FALSE, delay |-> NoDelay,
                        g |-> [g EXCEPT !.monitor = mark_failed(monitor),
                                        !.task = NoTask]]
             ELSE [recorded |-> FALSE, delay |-> NoDelay, g |-> g]
        ELSE IF monitor.state = "failed"
        THEN _start_reconnection(g) @@ [recorded |-> FALSE]
        ELSE [recorded |-> FALSE, delay |-> NoDelay, g |-> g]

\* make_serial_read_func: the handle is closed, the sensor not yet connected
SerialReaderInit ==
    [monitor |-> SensorHealthMonitor, ser |-> FALSE, connected |-> FALSE]

\* read_func when serial.Serial(port) succeeds and no line is waiting
read_func_open(r) ==
    IF r.ser
    THEN r
    ELSE IF ~r.connected
         THEN [r EXCEPT !.ser = TRUE, !.connected = TRUE,
                        !.monitor = record_data([@ EXCEPT !.state = "connected"])]
         ELSE [r EXCEPT !.ser = TRUE]

\* read_func when a line is read
read_func_line(r) ==
    [read_func_open(r) EXCEPT !.monitor = record_data(@)]

\* read_func when opening or reading raises
read_func_error(r) ==
    IF r.connected
    THEN [r EXCEPT !.ser = FALSE, !.connected = FALSE,
                   !.monitor = [@ EXCEPT !.state = "disconnected"]]
    ELSE [r EXCEPT !.ser = FALSE]

\* a sensor added to the supervisor connected or not, with a reconnection
\* callback or without, and its serial reader
HMInit(connected, callbacks) ==
    /\ \E is_connected \in connected : \E callback \in callbacks :
          hm = add_sensor(is_connected, callback)
    /\ hm_delays = <<>>
    /\ hm_last = [op |-> "none", before |-> SensorHealthMonitor]
    /\ rm = SerialReaderInit
    /\ rm_out = [called |-> FALSE]

(***************************************************************************)
(* PortDetector (core/port_detector.py).  A serial port is its position in *)
(* the list of comports() when a device is plugged into it; the device     *)
(* sends lines of one kind at one baud rate, and a port read at another    *)
(* rate gives nothing readable.                                            *)
(* pd.before, pd.probed, pd.assigned and pd.raised describe the last call  *)
(* of auto_detect_sensors (history).                                       *)
(***************************************************************************)
Ports == 1..MaxPorts

NoDevice == [line |-> "none", baud |-> 0, usSenderId |-> ""]
ForceDevice == [line |-> "ASC2", baud |-> 115200, usSenderId |-> ""]
DispDevice(sender) == [line |-> "SPC_VAL", baud |-> 9600, usSenderId |-> sender]

\* the displacement sensors, as the chains of comparisons name them
IsDisp(sensor_id) == sensor_id \in {DISP_1, DISP_2, DISP_3, DISP_4, DISP_5}

PortDetectorInit ==
    pd = [before |-> {},
          comports |-> [port \in Ports |-> NoDevice],
          used_ports |-> {},
          detected_sensors |-> <<>>,
          probed |-> {},
          assigned |-> <<>>,
          raised |-> "None"]

\* PortDetector.get_available_ports: the ports that have a device
get_available_ports(comports) == {port \in Ports : comports[port] # NoDevice}

\* PortDetector._identify_sensor_from_line on a line of the device
_identify_sensor_from_line(device, expected_sender_id) ==
    IF device.line = "ASC2" THEN "FORCE"
    ELSE IF device.line = "SPC_VAL"
    THEN IF expected_sender_id \notin {"None", ""}
         THEN IF device.usSenderId = expected_sender_id THEN "DISP" ELSE "None"
         ELSE "DISP"
    ELSE "None"

\* PortDetector.probe_sensor
probe_sensor(comports, port, baud, expected_sender_id) ==
    IF comports[port].baud = baud
    THEN _identify_sensor_from_line(comports[port], expected_sender_id)
    ELSE "None"

\* auto_detect_sensors reading the attribute serialId of the configuration
expected_sender_id_of_serialId(sensor_configs, sensor_id) ==
    IF IsDisp(sensor_id) /\ sensor_id \in DOMAIN sensor_configs
    THEN Ok(sensor_configs[sensor_id].serialId)
    ELSE Ok("None")

\* the expected sender id auto_detect_sensors reads from the configuration of
\* a displacement sensor: its attribute senderId
expected_sender_id_of(sensor_configs, sensor_id) ==
    IF IsDisp(sensor_id) /\ sensor_id \in DOMAIN sensor_configs
    THEN IF "senderId" \in DOMAIN sensor_configs[sensor_id]
         THEN Ok(sensor_configs[sensor_id].senderId)
         ELSE Raise("AttributeError")
    ELSE Ok("None")

\* local_used_ports = set(self.used_ports)
local_used_ports_empty(p) == {}

local_used_ports(p) == p.used_ports

\* PortDetector.auto_detect_sensors(sensor_bauds, sensor_configs) on the
\* port detector p: the port detector after the call.  sensor_bauds is the
\* dictionary in the order of its keys, a sequence of <<sensor_id, baud>>;
\* the dictionary returned is p.assigned, a sequence of <<sensor_id, port>>,
\* when p.raised is "None".
auto_detect_sensors(p, sensor_bauds, sensor_configs) ==
    LET max_disp == Cardinality({k \in DOMAIN sensor_bauds : IsDisp(sensor_bauds[k][1])})
        in_detected(acc, sensor_id) ==
            \E k \in DOMAIN acc.assigned : acc.assigned[k][1] = sensor_id
        RECURSIVE try(_, _, _)
        \* the body of the two loops at the port and at the k-th sensor
        try(port, k, acc) ==
            IF acc.raised # "None" \/ port > MaxPorts THEN acc
            ELSE IF \/ port \notin get_available_ports(p.comports)
                    \/ (k = 1 /\ port \in acc.local_used_ports)
                    \/ k > Len(sensor_bauds)
            THEN try(port + 1, 1, acc)
            ELSE LET sensor_id == sensor_bauds[k][1]
                     baud == sensor_bauds[k][2]
                     expected == expected_sender_id_of(sensor_configs, sensor_id)
                     sensor_type == probe_sensor(p.comports, port, baud, expected.val)
                     probing == [acc EXCEPT !.probed = @ \cup {port}]
                     found == [probing EXCEPT
                                  !.assigned = Append(@, <<sensor_id, port>>),
                                  !.local_used_ports = @ \cup {port}]
                 IN  IF IsDisp(sensor_id) /\ max_disp > 0 /\ acc.disp_count >= max_disp
                     THEN try(port, k + 1, acc)
                     ELSE IF in_detected(acc, sensor_id)
                     THEN try(port, k + 1, acc)
                     ELSE IF ~expected.ok
                     THEN [acc EXCEPT !.raised = expected.err]
                     ELSE IF sensor_type = "FORCE" /\ sensor_id = FORCE
                     THEN try(port + 1, 1, found)
                     ELSE IF sensor_type = "DISP" /\ IsDisp(sensor_id)
                     THEN try(port + 1, 1, [found EXCEPT !.disp_count = @ + 1])
                     ELSE try(port, k + 1, probing)
        done == try(1, 1, [probed |-> {},
                           assigned |-> <<>>,
                           raised |-> "None",
                           local_used_ports |-> local_used_ports(p),
                           disp_count |-> 0])
    IN  IF done.raised # "None"
        THEN [p EXCEPT !.before = p.used_ports,
                       !.probed = done.probed,
                       !.assigned = <<>>,
                       !.raised = done.raised]
        ELSE [p EXCEPT !.used_ports = done.local_used_ports,
                       !.detected_sensors = done.assigned,
                       !.before = p.used_ports,
                       !.probed = done.probed,
                       !.assigned = done.assigned,
                       !.raised = "None"]

\* the port of a sensor in the dictionary returned (0: the sensor is not in it)
PortOf(assigned, sensor_id) ==
    IF \E k \in DOMAIN assigned : assigned[k][1] = sensor_id
    THEN assigned[CHOOSE k \in DOMAIN assigned :
                     /\ assigned[k][1] = sensor_id
                     /\ \A j \in DOMAIN assigned : assigned[j][1] = sensor_id => j <= k][2]
    ELSE 0

(***************************************************************************)
(* Connectivity of the sensors: the configuration snapshot, the health     *)
(* monitors of the readers and the two is_sensor_connected.                *)
(***************************************************************************)
\* ConfigLoader.is_sensor_enabled
is_sensor_enabled(c, sensor_id) ==
    IF sensor_id \notin DOMAIN c.enabled
    THEN \A dep \in c.dependencies : c.enabled[dep]
    ELSE c.enabled[sensor_id]

\* SensorTask.is_connected: the reader task's monitor is CONNECTED ("none":
\* the sensor has no reader task)
is_connected(task) == task = "connected"

\* what SensorManager.is_sensor_connected reads for each sensor: the
\* configuration in emulation mode, its dictionary of reader tasks otherwise
sensor_tasks(emulation_mode, c, m) ==
    [i \in SensorId |-> IF emulation_mode
                        THEN is_sensor_enabled(c, i)
                        ELSE i # ARC /\ is_connected(m[i])]

\* SensorReconnectionManager.is_sensor_connected
srm_is_sensor_connected_by_monitor(emulation_mode, c, m, sensor_id) ==
    LET physical(i) == m[i] = "connected"
    IN  IF sensor_id = ARC
        THEN physical(DISP_1) /\ physical(DISP_2) /\ physical(DISP_3)
        ELSE physical(sensor_id)

srm_is_sensor_connected(emulation_mode, c, m, sensor_id) ==
    LET physical(i) == IF emulation_mode
                       THEN is_sensor_enabled(c, i)
                       ELSE m[i] = "connected"
    IN  IF sensor_id = ARC
        THEN physical(DISP_1) /\ physical(DISP_2) /\ physical(DISP_3)
        ELSE physical(sensor_id)

(***************************************************************************)
(* EventHub (core/event_hub.py).  A handler is a synchronous callable, as  *)
(* every handler the services subscribe; what a call of it does is an      *)
(* input: it returns, raises an Exception, or subscribes or unsubscribes a *)
(* handler of the topic before it returns.                                 *)
(***************************************************************************)
subscribe(subscribers, topic, handler) ==
    LET listed == IF topic \notin DOMAIN subscribers
                  THEN (topic :> <<>>) @@ subscribers
                  ELSE subscribers
    IN  IF \E k \in 1..Len(listed[topic]) : listed[topic][k] = handler
        THEN listed
        ELSE [listed EXCEPT ![topic] = Append(@, handler)]

unsubscribe(subscribers, topic, handler) ==
    IF topic \notin DOMAIN subscribers THEN subscribers
    ELSE [subscribers EXCEPT ![topic] =
             SelectSeq(@, LAMBDA other : other # handler)]

\* handler(topic, message) called inline, the handler doing `does` (kind
\* "return", "raise", "subscribe" or "unsubscribe", and the handler it
\* subscribes or unsubscribes): the subscribers afterwards
CallHandler(subscribers, topic, does) ==
    IF does.kind = "subscribe" THEN subscribe(subscribers, topic, does.handler)
    ELSE IF does.kind = "unsubscribe" THEN unsubscribe(subscribers, topic, does.handler)
    ELSE subscribers

RECURSIVE dispatch_unguarded(_, _, _, _, _, _)
RECURSIVE dispatch(_, _, _, _, _, _)
\* the loop over the handlers without its try/except: an exception of a
\* handler leaves send_all_on_topic
dispatch_unguarded(r, handlers, k, topic, in_loop, script) ==
    IF k > Len(handlers) THEN r
    ELSE LET handler == handlers[k]
             inline == ~r.hub._loop \/ in_loop
             next ==
                 IF inline
                 THEN [r EXCEPT !.hub._subscribers =
                                    CallHandler(@, topic, script[handler]),
                                !.received = Append(@, handler),
                                !.raised = script[handler].kind = "raise"]
                 ELSE [r EXCEPT !.hub.queue = Append(@, handler)]
         IN  IF next.raised THEN next
             ELSE dispatch_unguarded(next, handlers, k + 1, topic, in_loop, script)

\* the loop `for handler in handlers` of send_all_on_topic from the k-th
\* handler on: a synchronous handler is called inline when no loop is set or
\* the publisher runs in the loop, and handed to call_soon_threadsafe
\* otherwise; an exception of a handler is logged
dispatch(r, handlers, k, topic, in_loop, script) ==
    IF k > Len(handlers) THEN r
    ELSE LET handler == handlers[k]
             inline == ~r.hub._loop \/ in_loop
             next ==
                 IF inline
                 THEN [r EXCEPT !.hub._subscribers =
                                    CallHandler(@, topic, script[handler]),
                                !.received = Append(@, handler),
                                !.errors = IF script[handler].kind = "raise"
                                           THEN Append(@, handler) ELSE @]
                 ELSE [r EXCEPT !.hub.queue = Append(@, handler)]
         IN  dispatch(next, handlers, k + 1, topic, in_loop, script)

\* send_all_on_topic iterating over the list of subscribers itself
send_all_on_topic_live(h, topic, in_loop, script) ==
    LET RECURSIVE iterate(_, _)
        iterate(r, k) ==
            IF k > Len(r.hub._subscribers[topic]) THEN r
            ELSE iterate(dispatch(r, <<r.hub._subscribers[topic][k]>>, 1, topic,
                                  in_loop, script), k + 1)
        r0 == [hub |-> h, raised |-> FALSE, received |-> <<>>, errors |-> <<>>]
    IN  IF topic \in DOMAIN h._subscribers THEN iterate(r0, 1) ELSE r0

\* EventHub.send_all_on_topic: the hub afterwards, the handlers called, those
\* whose exception was logged, and whether an exception reached the publisher
send_all_on_topic(h, topic, in_loop, script) ==
    LET r0 == [hub |-> h, raised |-> FALSE, received |-> <<>>, errors |-> <<>>]
    IN  IF topic \in DOMAIN h._subscribers
        THEN dispatch(r0, h._subscribers[topic], 1, topic, in_loop, script)
        ELSE r0

\* the state after construction: a specification constructs the component it
\* is about with each input of a set, and the others with one; the
\* configuration is the default one (enabled per physical sensor, and the
\* dependencies of ARC), no sensor has a monitor, no query was made, the hub
\* has no subscriber and no loop, and no service runs
Init(capacities, frequencies, modes, connected, callbacks) ==
    /\ CBInit(capacities)
    /\ SDSInit(frequencies)
    /\ TestManagerInit
    /\ SMInit(modes)
    /\ DPInit
    /\ HMInit(connected, callbacks)
    /\ config = [enabled |-> [i \in SensorId \ {ARC} |-> i \in {FORCE, DISP_1}],
                 dependencies |-> {}]
    /\ monitors = [i \in SensorId |-> "none"]
    /\ conn_out = [sm |-> FALSE, sensor_id |-> ARC, srm |-> FALSE, asked |-> FALSE]
    /\ hub = [_loop |-> FALSE, _subscribers |-> <<>>, queue |-> <<>>]
    /\ hub_out = [raised |-> FALSE, handlers |-> <<>>, script |-> <<>>,
                  inline |-> FALSE, received |-> <<>>, errors |-> <<>>]
    /\ svc = [last |-> "none",
              tasks |-> <<>>,
              callbacks |-> {},
              sensor_bauds |-> <<>>,
              running |-> FALSE,
              data_processor_running |-> FALSE,
              sensor_manager_running |-> FALSE,
              monitor_task |-> "none",
              detection_task |-> "none",
              serial_tasks |-> {},
              sensor_tasks_map |-> [i \in SensorId |-> 0],
              detected_sensor_info |-> [i \in SensorId |-> 0],
              wait_time |-> 1,
              last_detected_sensor |-> "None",
              detection |-> [probed |-> {}, missing |-> {}, error |-> "None"]]
    /\ PortDetectorInit

(***************************************************************************)
(* The test manager and its callers: the four lifecycle calls in any       *)
(* order, the three subscribed topics delivered at any time, and the       *)
(* wall clock.                                                             *)
(***************************************************************************)
Instants == {0, 249999, 1000000}

MetaInputs == {[test_id |-> id, date |-> "2026-01-14"] :
                  id \in {<<"r", "u", "n", "/", "1">>}}

FrameValues ==
    {[i \in SensorId |-> IF i = ARC THEN Num(0 - 1500000) ELSE Num(i * 1000000 + 4999)],
     [i \in SensorId |-> IF i \in {DISP_1, ARC} THEN NaN ELSE Num(i * 1000000 + 5000)]}

Tick ==
    /\ \E t \in Instants : t > now /\ now' = t
    /\ last' = Event("tick")
    /\ UNCHANGED <<current_test, is_running, is_stopped, test_history, data_storage,
                   start_time, raw_file, csv_file, csv_writer, raw_csv_file,
                   raw_csv_writer, current_test_dir, graphique_images, disk, ringvars, compvars, svcvars>>

\* at most MaxRecorded events are delivered to a running test
Delivered ==
    /\ is_running => recorded < MaxRecorded
    /\ recorded' = IF is_running THEN recorded + 1 ELSE recorded
    /\ UNCHANGED finalized

\* a test whose finalize_test succeeds while its directory is there is finalized
Finalized ==
    finalized' = IF last'.exc = "None" /\ current_test.test_id \in DOMAIN disk
                 THEN finalized \cup {current_test.test_id}
                 ELSE finalized

NextTM ==
    \/ \E metadata \in MetaInputs : prepare_test(metadata) /\ UNCHANGED <<recorded, finalized>>
    \/ start_test /\ UNCHANGED <<recorded, finalized>>
    \/ stop_test /\ UNCHANGED <<recorded, finalized>>
    \/ finalize_test /\ Finalized /\ UNCHANGED recorded
    \/ \E line \in {"ASC2 1 2 3 4 5"} : Delivered /\ _on_serial_data(line)
    \/ \E value \in {Num(42004999)} :
          /\ Delivered
          /\ _on_raw_sensor_data([value |-> value, timestamp |-> now,
                                  sensor_id |-> FORCE])
    \/ \E values \in FrameValues :
          Delivered /\ _on_processed_data([timestamp |-> now, values |-> values])
    \/ Tick /\ UNCHANGED <<recorded, finalized>>

Spec == Init({1}, {<<1, 30>>}, {TRUE}, {TRUE}, {TRUE}) /\ [][NextTM]_vars

(***************************************************************************)
(* The test manager with its history: the lifecycle calls, archive and     *)
(* delete of any test directory, the queries, processed frames, the wall   *)
(* clock, and closes that fail.                                            *)
(***************************************************************************)
\* the ids a caller of archive and delete may pass: those prepare_test can
\* make, and one that names no test
TestIds ==
    {[timestamp |-> Strftime(t), safe_id |-> Sanitize(m.test_id)] :
        t \in Instants \cup {0}, m \in MetaInputs}
    \cup {[timestamp |-> 0, safe_id |-> <<"n", "o", "n", "e">>]}

\* a test archived or deleted is not a finalized test of the data directory
Forgotten(test_id) ==
    finalized' = IF disk' # disk THEN finalized \ {test_id} ELSE finalized

NextOps ==
    \/ \E metadata \in MetaInputs :
          prepare_test(metadata) /\ UNCHANGED <<recorded, finalized>>
    \/ start_test /\ UNCHANGED <<recorded, finalized>>
    \/ stop_test /\ UNCHANGED <<recorded, finalized>>
    \/ \E name \in {"raw.log", "data.csv", "raw_data.csv"} :
          stop_test_close_raises(name) /\ UNCHANGED <<recorded, finalized>>
    \/ finalize_test /\ Finalized /\ UNCHANGED recorded
    \/ \E test_id \in TestIds : \E dst_taken \in BOOLEAN :
          archive_test(test_id, dst_taken) /\ Forgotten(test_id) /\ UNCHANGED recorded
    \/ \E test_id \in TestIds :
          delete_test(test_id) /\ Forgotten(test_id) /\ UNCHANGED recorded
    \/ get_history /\ UNCHANGED <<recorded, finalized>>
    \/ \E window_seconds \in {30, 45} :
          get_sensor_history(FORCE, window_seconds) /\ UNCHANGED <<recorded, finalized>>
    \/ \E values \in {[i \in SensorId |-> Num(i * 1000000 + 4999)]} :
          /\ is_running => recorded < MaxOpsFrames
          /\ Delivered
          /\ _on_processed_data([timestamp |-> now, values |-> values])
    \/ Tick /\ UNCHANGED <<recorded, finalized>>

SpecOps ==
    Init({1}, {<<1, 30>>}, {TRUE}, {TRUE}, {TRUE}) /\ [][NextOps]_vars

(***************************************************************************)
(* The circular buffer on its own: a buffer of any small capacity is       *)
(* appended to, cleared and read.                                          *)
(***************************************************************************)
CBAppend(time) ==
    /\ Len(cb_log) < MaxAppends
    /\ cb' = append(cb, time, Len(cb_log) + 1)
    /\ cb_log' = Append(cb_log, <<time, Len(cb_log) + 1>>)
    /\ UNCHANGED <<cb_out, sds, sds_log, sds_out, tmvars, compvars, svcvars>>

CBClear ==
    /\ cb_log # <<>>
    /\ cb' = clear(cb)
    /\ cb_log' = <<>>
    /\ cb_out' = NoOut
    /\ UNCHANGED <<sds, sds_log, sds_out, tmvars, compvars, svcvars>>

\* a read of the buffer: get, get_all or get_range, and what it returned
CBRead(op, args, res) ==
    /\ cb_out' = [op |-> op, args |-> args, res |-> res]
    /\ UNCHANGED <<cb, cb_log, sds, sds_log, sds_out, tmvars, compvars, svcvars>>

NextCB ==
    \/ \E time \in 0..MaxTime : CBAppend(time)
    \/ CBClear
    \/ \E index \in (0 - 1)..cb.capacity : CBRead("get", <<index>>, get(cb, index))
    \/ CBRead("get_all", <<>>, get_all(cb))
    \/ \E start_index, end_index \in 0..cb.capacity :
          CBRead("get_range", <<start_index, end_index>>,
                 get_range(cb, start_index, end_index))

SpecCB ==
    Init(1..MaxCapacity, {<<1, 30>>}, {TRUE}, {TRUE}, {TRUE}) /\ [][NextCB]_vars

(***************************************************************************)
(* The sensor data storage on its own: samples with non-decreasing times   *)
(* are appended to sensor 0 until the buffer has wrapped, and every        *)
(* window is queried.                                                      *)
(***************************************************************************)
SDSAppend(time) ==
    /\ Len(sds_log) < sds.total_capacity + StorageOverrun
    /\ sds_log # <<>> => time >= sds_log[Len(sds_log)][1]
    /\ sds' = storage_append(sds, 0, time, Len(sds_log) + 1).val
    /\ sds_log' = Append(sds_log, <<time, Len(sds_log) + 1>>)
    /\ sds_out' = NoOut
    /\ UNCHANGED <<cb, cb_log, cb_out, tmvars, compvars, svcvars>>

SDSQuery(window_seconds) ==
    /\ sds_out' = [op |-> "query", args |-> <<window_seconds>>,
                   res |-> get_data_for_window_seconds(sds, 0, window_seconds)]
    /\ UNCHANGED <<sds, sds_log, cb, cb_log, cb_out, tmvars, compvars, svcvars>>

NextSDS ==
    \/ \E time \in 0..MaxStorageTime : SDSAppend(time)
    \/ \E window_seconds \in DisplayDuration \cup {45} : SDSQuery(window_seconds)

SpecSDS ==
    Init({1}, {<<1, 15>>, <<1, 8>>}, {TRUE}, {TRUE}, {TRUE}) /\ [][NextSDS]_vars

(***************************************************************************)
(* The sensor manager on its own, in hardware mode (serial lines handled   *)
(* on the event loop) or in emulation mode (values produced by the         *)
(* emulation thread, whose _notify interleaves with the event loop), with  *)
(* zero commands at any time.  Every published event carries the number of *)
(* the arrival that produced it, its raw value, and the raw value that the *)
(* last zero command since the previous update was meant to cancel.        *)
(***************************************************************************)
ForceLines ==
    {<<Word("ASC2"), Number(20945595), Number(0 - 165341), Number(0), Number(v)>> :
        v \in {1, 3}}
    \cup {<<Word("ASC2"), Number(20945595), Number(0 - 165341), Number(0)>>,
          <<Word("ASC2"), Number(20945595), Number(0 - 165341), Number(0), Word("x")>>}

MotionLines ==
    {<<Word("SPC_VAL"), SenderPart("0x2E01"), Word("ulMicros=76071216"), ValPart(v)>> :
        v \in {1, 3}}
    \cup {<<Word("SPC_VAL"), SenderPart("0x2E99"), Word("ulMicros=76071216"), ValPart(1)>>,
          <<Word("SPC_VAL"), SenderPart("0x2E01"),
            [v |-> 0, ok |-> FALSE, text |-> "abc", kind |-> "Val="]>>,
          <<Word("SPC_VAL"), ValPart(1)>>}

Stamp(out, arrival, raw, ref) ==
    [k \in 1..Len(out) |->
        [value |-> out[k].value, topic |-> out[k].topic,
         sensor_id |-> out[k].sensor_id, arrival |-> arrival, raw |-> raw,
         ref |-> IF out[k].topic = "sensor_update" THEN ref ELSE NoVal]]

\* a serial reader publishes a line on serial_data
SerialData(sensorId, line_str) ==
    /\ Len(sm_env.log) < MaxLines
    /\ LET r == sm_on_serial_data(sm, <<sensorId, line_str>>)
           n == Len(sm_env.log) + 1
           raw == IF r.out = <<>> THEN NoVal ELSE r.out[1].value
       IN  /\ sm' = r.m
           /\ sm_pub' = sm_pub \o Stamp(r.out, n, raw, sm_env.zero_ref[sensorId])
           /\ sm_env' =
                 [sm_env EXCEPT
                    !.log = Append(@, [line |-> line_str, sensor_id |-> sensorId,
                                       emulated |-> FALSE]),
                    !.last_raw[sensorId] = IF r.out = <<>> THEN @ ELSE raw,
                    !.zero_ref[sensorId] = IF r.out = <<>> THEN @ ELSE NoVal]
    /\ UNCHANGED <<sm_notify, ringvars, tmvars, svcvars, dp, dp_frame, dp_connected, hm, hm_delays, hm_last, rm_out, rm>>

\* the emulation thread enters _notify: it reads the offset and publishes
\* the raw value
EmulateBegin(sensor_id, value) ==
    /\ sm.emulation_mode
    /\ ~sm_notify.busy
    /\ Len(sm_env.log) < MaxLines
    /\ LET n == Len(sm_env.log) + 1
           corrected_value == FSub(Num(value), sm.offsets[sensor_id])
       IN  /\ sm_notify' = [value |-> Num(value), sensor_id |-> sensor_id,
                            corrected_value |-> corrected_value,
                            busy |-> TRUE,
                            arrival |-> n, stale |-> FALSE]
           /\ sm_pub' = sm_pub \o
                 Stamp(<<SensorData("sensor_raw_update", sensor_id, Num(value))>>,
                       n, Num(value), NoVal)
           /\ sm_env' =
                 [sm_env EXCEPT
                    !.log = Append(@, [line |-> <<>>, sensor_id |-> sensor_id,
                                       emulated |-> TRUE]),
                    !.last_raw[sensor_id] = Num(value)]
    /\ UNCHANGED <<sm, ringvars, tmvars, svcvars, dp, dp_frame, dp_connected, hm, hm_delays, hm_last, rm_out, rm>>

\* the emulation thread leaves _notify: it stores the calibrated value and
\* publishes it
EmulateEnd ==
    /\ sm_notify.busy
    /\ LET sensor_id == sm_notify.sensor_id
       IN  /\ sm' = [sm EXCEPT !.sensors[sensor_id] = sm_notify.corrected_value]
           /\ sm_pub' = sm_pub \o
                 Stamp(<<SensorData("sensor_update", sensor_id,
                                    sm_notify.corrected_value)>>,
                       sm_notify.arrival, sm_notify.value,
                       IF sm_notify.stale THEN NoVal ELSE sm_env.zero_ref[sensor_id])
           /\ sm_env' =
                 [sm_env EXCEPT
                    !.zero_ref[sensor_id] = IF sm_notify.stale THEN @ ELSE NoVal]
    /\ sm_notify' = [busy |-> FALSE]
    /\ UNCHANGED <<ringvars, tmvars, svcvars, dp, dp_frame, dp_connected, hm, hm_delays, hm_last, rm_out, rm>>

\* a zero command is published on sensor_command
ZeroCommand(sensor_id) ==
    /\ sm_env.zeros < MaxZeros
    /\ sm' = sm_on_command(sm, [sensor_id |-> sensor_id, action |-> "zero"])
    /\ sm_env' = [sm_env EXCEPT !.zeros = @ + 1,
                                !.zero_ref[sensor_id] = sm_env.last_raw[sensor_id]]
    /\ sm_notify' = IF sm_notify.busy /\ sm_notify.sensor_id = sensor_id
                    THEN [sm_notify EXCEPT !.stale = TRUE]
                    ELSE sm_notify
    /\ UNCHANGED <<sm_pub, ringvars, tmvars, svcvars, dp, dp_frame, dp_connected, hm, hm_delays, hm_last, rm_out, rm>>

NextSM ==
    \/ \E line_str \in ForceLines : SerialData(FORCE, line_str)
    \/ \E line_str \in MotionLines : SerialData(DISP_1, line_str)
    \/ \E sensor_id \in {FORCE, DISP_1} : \E value \in {1, 3} :
          EmulateBegin(sensor_id, value)
    \/ EmulateEnd
    \/ \E sensor_id \in {FORCE, DISP_1} : ZeroCommand(sensor_id)

SpecSM ==
    Init({1}, {<<1, 30>>}, BOOLEAN, {TRUE}, {TRUE}) /\ [][NextSM]_vars

(***************************************************************************)
(* The data processor on its own: calibrated values and NaN arrive on      *)
(* sensor_update, sensors connect and disconnect, and the loop publishes a *)
(* frame at each tick.                                                     *)
(***************************************************************************)
\* a calibrated value of a sensor, or NaN, is published on sensor_update
SensorUpdate(sensor_id, value) ==
    /\ value.nan => dp.nan_counts[sensor_id] < MaxNanCount
    /\ dp' = _on_raw_update(dp, SensorData("sensor_update", sensor_id, value))
    /\ UNCHANGED <<dp_frame, dp_connected, ringvars, tmvars, svcvars, sm, sm_notify, sm_pub,
                   sm_env, hm, hm_delays, hm_last, rm_out, rm>>

\* a sensor connects or disconnects
Connection(sensor_id) ==
    /\ dp_connected' = [dp_connected EXCEPT ![sensor_id] = ~@]
    /\ UNCHANGED <<dp, dp_frame, ringvars, tmvars, svcvars, sm, sm_notify, sm_pub, sm_env, hm, hm_delays, hm_last, rm_out, rm>>

\* the loop of the data processor takes one turn
ProcessTick ==
    /\ LET r == _process_loop(dp, sm.emulation_mode, dp_connected, now)
       IN  /\ dp' = r.d
           /\ dp_frame' = r.frame
    /\ UNCHANGED <<dp_connected, ringvars, tmvars, svcvars, sm, sm_notify, sm_pub, sm_env, hm, hm_delays, hm_last, rm_out, rm>>

NextDP ==
    \/ \E sensor_id \in {DISP_1, DISP_2, DISP_3} : \E value \in {2, 6} :
          SensorUpdate(sensor_id, Num(value))
    \/ SensorUpdate(DISP_1, NaN)
    \/ \E sensor_id \in {DISP_2, DISP_3, ARC} : Connection(sensor_id)
    \/ ProcessTick

SpecDP ==
    Init({1}, {<<1, 30>>}, BOOLEAN, {TRUE}, {TRUE}) /\ [][NextDP]_vars

(***************************************************************************)
(* The health monitoring of one sensor: the supervisor ticks, reconnection *)
(* tasks finish, data is recorded, time passes, and the serial reader      *)
(* opens its port, reads lines and fails.                                  *)
(***************************************************************************)
\* one more second without data
TimePasses ==
    /\ \/ hm.monitor.silence <= max_silence_time
       \/ rm.monitor.silence <= max_silence_time
    /\ hm' = [hm EXCEPT !.monitor.silence = Min(@ + 1, max_silence_time + 1)]
    /\ rm' = [rm EXCEPT !.monitor.silence = Min(@ + 1, max_silence_time + 1)]
    /\ UNCHANGED <<hm_delays, hm_last, rm_out, ringvars, tmvars, svcvars, sm, sm_notify, sm_pub, sm_env, dp, dp_frame, dp_connected>>

\* the supervisor's loop takes one turn
MonitorTick ==
    /\ hm.monitor.state \in {"disconnected", "failed"} /\ hm.callback =>
           /\ hm.monitor.reconnect_attempts < MaxAttempts
           /\ hm.task.task /\ ~hm.task.done => hm.replaced < MaxReplaced
    /\ LET r == _monitor_tick(hm)
       IN  /\ hm' = r.g
           /\ hm_delays' = IF r.recorded THEN <<>>
                           ELSE IF r.delay # NoDelay
                                THEN Append(hm_delays, r.delay)
                                ELSE hm_delays
           /\ hm_last' = [op |-> IF r.recorded THEN "reconnected" ELSE "tick",
                          before |-> hm.monitor]
    /\ UNCHANGED <<rm, rm_out, ringvars, tmvars, svcvars, sm, sm_notify, sm_pub, sm_env, dp, dp_frame, dp_connected>>

\* the reconnection task finishes: the callback found the sensor or did not
ReconnectionDone(success) ==
    /\ hm.task.task
    /\ ~hm.task.done
    /\ hm' = [hm EXCEPT !.task = ReconnectTask(TRUE, success)]
    /\ UNCHANGED <<hm_delays, hm_last, rm_out, rm, ringvars, tmvars, svcvars, sm, sm_notify, sm_pub, sm_env, dp, dp_frame, dp_connected>>

\* a reconnection task that reconnection_tasks holds no more finishes
ReplacedTaskDone ==
    /\ hm.replaced > 0
    /\ hm' = [hm EXCEPT !.replaced = @ - 1]
    /\ UNCHANGED <<hm_delays, hm_last, rm_out, rm, ringvars, tmvars, svcvars, sm, sm_notify, sm_pub, sm_env, dp, dp_frame, dp_connected>>

\* record_sensor_data(sensor_id)
RecordSensorData ==
    /\ hm' = [hm EXCEPT !.monitor = record_data(@)]
    /\ hm_delays' = <<>>
    /\ hm_last' = [op |-> "record_data", before |-> hm.monitor]
    /\ UNCHANGED <<rm, rm_out, ringvars, tmvars, svcvars, sm, sm_notify, sm_pub, sm_env, dp, dp_frame, dp_connected>>

\* the serial reader's read_func runs once and leaves the reader as r
read_func(r) ==
    /\ rm' = r
    /\ rm_out' = [called |-> TRUE]
    /\ UNCHANGED <<hm, hm_delays, hm_last, ringvars, tmvars, svcvars, sm, sm_notify, sm_pub,
                   sm_env, dp, dp_frame, dp_connected>>

NextHM ==
    \/ TimePasses
    \/ MonitorTick
    \/ \E success \in BOOLEAN : ReconnectionDone(success)
    \/ ReplacedTaskDone
    \/ RecordSensorData
    \/ ~rm.ser /\ read_func(read_func_open(rm))
    \/ read_func(read_func_line(rm))
    \/ read_func(read_func_error(rm))

SpecHM ==
    Init({1}, {<<1, 30>>}, {FALSE}, BOOLEAN, BOOLEAN) /\ [][NextHM]_vars

\* The same supervisor with a reconnection callback that eventually returns
\* true: it returns false on fewer than MaxAttempts attempts in a row.
NextHMFair ==
    \/ TimePasses
    \/ MonitorTick
    \/ ReconnectionDone(TRUE)
    \/ hm.monitor.reconnect_attempts < MaxAttempts /\ ReconnectionDone(FALSE)
    \/ ReplacedTaskDone
    \/ RecordSensorData
    \/ ~rm.ser /\ read_func(read_func_open(rm))
    \/ read_func(read_func_line(rm))
    \/ read_func(read_func_error(rm))

\* start_monitoring takes a turn every second for as long as it runs, and a
\* reconnect_with_delay task, in reconnection_tasks or replaced there, ends
\* once its sleep and its callback have returned
SpecHMFair ==
    /\ Init({1}, {<<1, 30>>}, {FALSE}, BOOLEAN, BOOLEAN)
    /\ [][NextHMFair]_vars
    /\ WF_vars(MonitorTick)
    /\ WF_vars(\E success \in BOOLEAN : ReconnectionDone(success))
    /\ WF_vars(ReplacedTaskDone)

(***************************************************************************)
(* Connectivity on its own: configurations are loaded, monitors are added  *)
(* and change state, and both is_sensor_connected are asked about every    *)
(* sensor.                                                                 *)
(***************************************************************************)
\* ConfigLoader.load_config with a file that holds c
load_config(c) ==
    /\ config' = c
    /\ UNCHANGED <<monitors, conn_out, hub, hub_out, svc, pd, ringvars, tmvars, compvars>>

\* the monitor of a sensor is added (add_sensor) or changes its state
\* (record_error, record_data)
MonitorState(sensor_id, state) ==
    /\ monitors[sensor_id] # state
    /\ monitors' = [monitors EXCEPT ![sensor_id] = state]
    /\ UNCHANGED <<config, conn_out, hub, hub_out, svc, pd, ringvars, tmvars, compvars>>

\* is_sensor_connected(sensor_id) of the sensor manager and of the supervisor
QueryConnected(sensor_id) ==
    /\ conn_out' =
          [sm |-> is_sensor_connected(sm.emulation_mode,
                     sensor_tasks(sm.emulation_mode, config, monitors), sensor_id),
           sensor_id |-> sensor_id,
           srm |-> srm_is_sensor_connected(sm.emulation_mode, config, monitors,
                                           sensor_id),
           asked |-> TRUE]
    /\ UNCHANGED <<config, monitors, hub, hub_out, svc, pd, ringvars, tmvars, compvars>>

NextConn ==
    \/ \E enabled \in SUBSET {DISP_1, DISP_2, DISP_3} :
       \E dependencies \in {{}, {DISP_1, DISP_2}, {DISP_1, DISP_2, DISP_3}} :
          load_config([enabled |-> [i \in SensorId \ {ARC} |->
                                       i = FORCE \/ i \in enabled],
                       dependencies |-> dependencies])
    \/ \E sensor_id \in {FORCE, DISP_1, DISP_2, DISP_3} :
       \E state \in {"connected", "disconnected"} :
          MonitorState(sensor_id, state)
    \/ \E sensor_id \in SensorId : QueryConnected(sensor_id)

SpecConn ==
    Init({1}, {<<1, 30>>}, BOOLEAN, {TRUE}, {TRUE}) /\ [][NextConn]_vars

(***************************************************************************)
(* The event hub on its own: the loop is set, handlers of one topic are    *)
(* subscribed and unsubscribed, messages are published from the loop and   *)
(* from another thread, and the loop runs the calls posted to it.          *)
(***************************************************************************)
init_event_hub ==
    /\ ~hub._loop
    /\ hub' = [hub EXCEPT !._loop = TRUE]
    /\ UNCHANGED <<hub_out, config, monitors, conn_out, svc, pd, ringvars, tmvars, compvars>>

\* subscribe or unsubscribe called outside a dispatch
Subscription(topic, does) ==
    /\ hub' = [hub EXCEPT !._subscribers = CallHandler(@, topic, does)]
    /\ hub'._subscribers # hub._subscribers
    /\ UNCHANGED <<hub_out, config, monitors, conn_out, svc, pd, ringvars, tmvars, compvars>>

\* send_all_on_topic(topic, message) by a publisher in the loop or in another
\* thread, while no earlier message waits in the loop
Publish(topic, in_loop, script) ==
    /\ hub.queue = <<>>
    /\ LET r == send_all_on_topic(hub, topic, in_loop, script)
       IN  /\ hub' = r.hub
           /\ hub_out' = [raised |-> r.raised,
                          handlers |-> IF topic \in DOMAIN hub._subscribers
                                       THEN hub._subscribers[topic] ELSE <<>>,
                          script |-> script,
                          inline |-> ~hub._loop \/ in_loop,
                          received |-> r.received,
                          errors |-> r.errors]
    /\ UNCHANGED <<config, monitors, conn_out, svc, pd, ringvars, tmvars, compvars>>

\* the loop runs the first call posted by call_soon_threadsafe; an exception
\* of the handler goes to the exception handler of the loop
RunCallback(topic, does) ==
    /\ hub.queue # <<>>
    /\ hub' = [hub EXCEPT !.queue = Tail(@),
                          !._subscribers = CallHandler(@, topic, does)]
    /\ hub_out' = [hub_out EXCEPT !.received = Append(@, Head(hub.queue))]
    /\ UNCHANGED <<config, monitors, conn_out, svc, pd, ringvars, tmvars, compvars>>

NextHub ==
    LET Does(kind, handler) == [kind |-> kind, handler |-> handler]
        Returning == Does("return", "None")
        Raising == Does("raise", "None")
    IN  \/ init_event_hub
        \/ \E kind \in {"subscribe", "unsubscribe"} : \E handler \in {"h1", "h2", "h3"} :
              Subscription("processed_data", Does(kind, handler))
        \/ \E in_loop \in BOOLEAN :
           \E does1 \in {Returning, Raising, Does("unsubscribe", "h2"),
                         Does("subscribe", "h3")} :
           \E does2 \in {Returning, Raising, Does("unsubscribe", "h2")} :
           \E does3 \in {Returning, Raising} :
              Publish("processed_data", in_loop,
                      [handler \in {"h1", "h2", "h3"} |->
                          IF handler = "h1" THEN does1
                          ELSE IF handler = "h2" THEN does2 ELSE does3])
        \/ \E does \in {Returning, Raising, Does("unsubscribe", "h2"),
                        Does("subscribe", "h3")} :
              RunCallback("processed_data", does)

SpecHub ==
    Init({1}, {<<1, 30>>}, {TRUE}, {TRUE}, {TRUE}) /\ [][NextHub]_vars

(***************************************************************************)
(* The port detector on its own: devices come and go, ports are released   *)
(* and auto_detect_sensors is called for any sensors.                      *)
(***************************************************************************)
\* get_all_sensors() as auto_detect_sensors receives it: a configSensorData
\* per sensor
all_sensor_configs == [i \in SensorId |-> [serialId |-> serialId[i]]]

\* a device is plugged into a port or removed from it
Plug(port, device) ==
    /\ pd.comports[port] # device
    /\ pd' = [pd EXCEPT !.comports[port] = device]
    /\ UNCHANGED <<config, monitors, conn_out, hub, hub_out, svc, ringvars, tmvars,
                   compvars>>

\* port_detector.used_ports.discard(port)
ReleasePort(port) ==
    /\ port \in pd.used_ports
    /\ pd' = [pd EXCEPT !.used_ports = @ \ {port}]
    /\ UNCHANGED <<config, monitors, conn_out, hub, hub_out, svc, ringvars, tmvars,
                   compvars>>

AutoDetect ==
    /\ \E sensor_bauds \in {<<<<FORCE, 115200>>>>, <<<<DISP_1, 9600>>>>,
                            <<<<FORCE, 115200>>, <<DISP_1, 9600>>, <<DISP_2, 9600>>>>} :
       \E sensor_configs \in {<<>>, all_sensor_configs} :
          pd' = auto_detect_sensors(pd, sensor_bauds, sensor_configs)
    /\ UNCHANGED <<config, monitors, conn_out, hub, hub_out, svc, ringvars, tmvars,
                   compvars>>

NextPD ==
    \/ \E port \in Ports :
       \E device \in {NoDevice, ForceDevice, DispDevice("0x2E01"), DispDevice("0x2E02")} :
          Plug(port, device)
    \/ \E port \in Ports : ReleasePort(port)
    \/ AutoDetect

SpecPD ==
    Init({1}, {<<1, 30>>}, {TRUE}, {TRUE}, {TRUE}) /\ [][NextPD]_vars

(***************************************************************************)
(* ServiceManager (core/service_manager.py) with the test manager and the  *)
(* data processor.  svc.tasks holds every serial reader task created, each *)
(* with its sensor and whether it was cancelled; serial_tasks and          *)
(* sensor_tasks_map refer to tasks by their position in it (0: no task).   *)
(* A task of the supervisor or of the rediscovery is "none", "pending" or  *)
(* "cancelled".                                                            *)
(***************************************************************************)
\* sensor_bauds of start_services: the baud of every sensor of the
\* configuration, in the order of the configuration; a calculated sensor has
\* no attribute baud.  The rates are those of the default configuration.
sensor_bauds_of(c) ==
    IF \A i \in SensorId : i \in DOMAIN c.enabled
    THEN Ok([k \in 1..Cardinality(SensorId) |->
                <<k - 1, IF k - 1 = FORCE THEN 115200 ELSE 9600>>])
    ELSE Raise("AttributeError")

\* loop.create_task(serial_reader(sensor_id, port, baudrate)), once for each
\* sensor of the dictionary `assigned`, and sensor_tasks_map[sensor_id] = task
spawn_readers(s, assigned) ==
    [s EXCEPT
        !.tasks = @ \o [k \in DOMAIN assigned |->
                           [sensor_id |-> assigned[k][1], port |-> assigned[k][2],
                            cancelled |-> FALSE]],
        !.sensor_tasks_map =
            [i \in SensorId |->
                IF \E k \in DOMAIN assigned : assigned[k][1] = i
                THEN Len(s.tasks) + (CHOOSE k \in DOMAIN assigned : assigned[k][1] = i)
                ELSE @[i]],
        !.detected_sensor_info =
            [i \in SensorId |->
                IF PortOf(assigned, i) # 0 THEN PortOf(assigned, i) ELSE @[i]]]

\* start_services(emulation).  sensor_manager.start raises ValueError in
\* hardware mode (no sensor_ports are passed) unless the sensor manager runs
\* in hardware mode already, and start_services ends there; it ends with
\* AttributeError where sensor_bauds or the initial detection raises it.
start_services(emulation) ==
    LET returns_early == svc.sensor_manager_running /\ sm.emulation_mode = emulation
        raises == ~emulation /\ ~returns_early
        sensor_bauds == sensor_bauds_of(config)
        detecting == auto_detect_sensors(pd, sensor_bauds.val, all_sensor_configs)
        detected == detecting.assigned
        started == [svc EXCEPT !.data_processor_running = TRUE,
                               !.sensor_manager_running = TRUE]
        supervised == [started EXCEPT !.monitor_task = "pending"]
        reading == spawn_readers(supervised, detected)
    IN  /\ svc.detection_task = "none"
        /\ hub' = [hub EXCEPT !._loop = TRUE]
        /\ sm' = [sm EXCEPT !.emulation_mode =
                                IF returns_early THEN @ ELSE emulation]
        /\ IF raises
           THEN /\ svc' = [started EXCEPT !.last = "ValueError"]
                /\ UNCHANGED <<monitors, pd>>
           ELSE IF emulation
           THEN /\ svc' = [started EXCEPT !.last = "started"]
                /\ UNCHANGED <<monitors, pd>>
           ELSE IF ~sensor_bauds.ok
           THEN /\ svc' = [started EXCEPT !.last = sensor_bauds.err]
                /\ UNCHANGED <<monitors, pd>>
           ELSE IF detecting.raised # "None"
           THEN /\ svc' = [supervised EXCEPT !.last = detecting.raised]
                /\ pd' = detecting
                /\ UNCHANGED monitors
           ELSE /\ Len(svc.tasks) + Len(detected) <= MaxReaders
                /\ svc' = [reading EXCEPT
                              !.serial_tasks =
                                  IF detected = <<>> THEN @
                                  ELSE {Len(svc.tasks) + k : k \in DOMAIN detected},
                              !.callbacks = {detected[k][1] : k \in DOMAIN detected},
                              !.sensor_bauds = sensor_bauds.val,
                              !.running = TRUE,
                              !.detection_task = "pending",
                              !.last = "started"]
                /\ pd' = detecting
                /\ monitors' = [i \in SensorId |->
                                   IF PortOf(detected, i) # 0 THEN "connected"
                                   ELSE monitors[i]]
        /\ UNCHANGED <<config, conn_out, hub_out, ringvars, tmvars, sm_notify, sm_pub,
                       sm_env, dp, dp_frame, dp_connected, hm, hm_delays, hm_last, rm_out, rm>>

\* the baud of a sensor in sensor_bauds
BaudOf(sensor_bauds, sensor_id) ==
    sensor_bauds[CHOOSE k \in DOMAIN sensor_bauds : sensor_bauds[k][1] = sensor_id][2]

\* the supervisor calls reconnect_sensor(sensor_id): found again, the sensor
\* gets a new reader task, which replaces the one of the sensor in the map;
\* not found, its old port leaves used_ports
reconnect_sensor(sensor_id) ==
    LET old_port == svc.detected_sensor_info[sensor_id]
        detecting == auto_detect_sensors(
                         pd, <<<<sensor_id, BaudOf(svc.sensor_bauds, sensor_id)>>>>,
                         all_sensor_configs)
        detected == detecting.assigned
    IN  /\ svc.monitor_task = "pending"
        /\ sensor_id \in svc.callbacks
        /\ IF detecting.raised # "None"
           THEN /\ svc' = [svc EXCEPT !.last = detecting.raised]
                /\ pd' = detecting
           ELSE IF PortOf(detected, sensor_id) # 0
           THEN /\ Len(svc.tasks) < MaxReaders
                /\ svc' = [spawn_readers(svc, detected) EXCEPT !.last = "reconnected"]
                /\ pd' = detecting
           ELSE /\ svc' = [svc EXCEPT !.last = "not reconnected"]
                /\ pd' = [detecting EXCEPT
                             !.used_ports = IF old_port # 0 THEN @ \ {old_port} ELSE @]
        /\ UNCHANGED <<config, monitors, conn_out, hub, hub_out, ringvars, tmvars,
                       compvars>>

\* sorted(missing): the members of SensorId, an Enum, have no order, and
\* a list of two or more of them cannot be sorted
sorted(missing) ==
    IF Cardinality(missing) >= 2 THEN Raise("TypeError")
    ELSE Ok([k \in 1..Cardinality(missing) |-> CHOOSE i \in missing : TRUE])

\* one turn of the loop of periodic_sensor_detection, after the sleep
periodic_sensor_detection ==
    LET missing == {svc.sensor_bauds[k][1] : k \in DOMAIN svc.sensor_bauds}
                      \ {i \in SensorId : svc.detected_sensor_info[i] # 0}
        missing_list == sorted(missing)
        index == IF \E k \in DOMAIN missing_list.val :
                       missing_list.val[k] = svc.last_detected_sensor
                 THEN CHOOSE k \in DOMAIN missing_list.val :
                         missing_list.val[k] = svc.last_detected_sensor
                 ELSE Len(missing_list.val)
        idx == IF index >= Len(missing_list.val) THEN 1 ELSE index + 1
        sensor_to_detect == missing_list.val[idx]
        detecting == auto_detect_sensors(
                         pd, <<<<sensor_to_detect,
                                 BaudOf(svc.sensor_bauds, sensor_to_detect)>>>>,
                         all_sensor_configs)
        newly_detected == detecting.assigned
        turn(probed, error) == [probed |-> probed, missing |-> missing, error |-> error]
    IN  /\ svc.detection_task = "pending"
        /\ svc.running
        /\ IF missing = {}
           THEN /\ svc' = [svc EXCEPT !.wait_time = Min(@ + 1, max_wait_time),
                                      !.detection = turn({}, "None"),
                                      !.last = "detection"]
                /\ UNCHANGED <<pd, monitors>>
           ELSE IF ~missing_list.ok
           THEN /\ svc' = [svc EXCEPT !.detection = turn({}, missing_list.err),
                                      !.last = "detection"]
                /\ UNCHANGED <<pd, monitors>>
           ELSE IF detecting.raised # "None"
           THEN /\ svc' = [svc EXCEPT
                              !.last_detected_sensor = sensor_to_detect,
                              !.detection = turn({sensor_to_detect}, detecting.raised),
                              !.last = "detection"]
                /\ pd' = detecting
                /\ UNCHANGED monitors
           ELSE IF PortOf(newly_detected, sensor_to_detect) # 0
           THEN /\ Len(svc.tasks) < MaxReaders
                /\ svc' = [spawn_readers(svc, newly_detected) EXCEPT
                              !.last_detected_sensor = sensor_to_detect,
                              !.callbacks = @ \cup {sensor_to_detect},
                              !.wait_time = 1,
                              !.detection = turn({sensor_to_detect}, "None"),
                              !.last = "detection"]
                /\ pd' = detecting
                /\ monitors' = [monitors EXCEPT ![sensor_to_detect] = "connected"]
           ELSE /\ svc' = [svc EXCEPT
                              !.last_detected_sensor = sensor_to_detect,
                              !.detection = turn({sensor_to_detect}, "None"),
                              !.last = "detection"]
                /\ pd' = detecting
                /\ UNCHANGED monitors
        /\ UNCHANGED <<config, conn_out, hub, hub_out, ringvars, tmvars, compvars>>

stop_services ==
    LET cancel == svc.serial_tasks
                     \cup {svc.sensor_tasks_map[i] : i \in SensorId}
        cancelled(task) == IF task = "pending" THEN "cancelled" ELSE task
    IN  /\ svc' = [svc EXCEPT
                      !.running = FALSE,
                      !.sensor_manager_running = FALSE,
                      !.detection_task = cancelled(@),
                      !.monitor_task = cancelled(@),
                      !.tasks = [k \in DOMAIN @ |->
                                    IF k \in cancel
                                    THEN [@[k] EXCEPT !.cancelled = TRUE]
                                    ELSE @[k]],
                      !.last = "stopped"]
        /\ UNCHANGED <<config, monitors, conn_out, hub, hub_out, pd, ringvars, tmvars,
                       compvars>>

\* a configuration file in which every sensor, ARC too, is listed under
\* "sensors" and so has a baud
HardwareConfig ==
    [enabled |-> [i \in SensorId |-> i \in {FORCE, DISP_1}], dependencies |-> {}]

NextSvc ==
    \/ \E emulation \in BOOLEAN : start_services(emulation)
    \/ load_config(HardwareConfig)
    \/ \E port \in Ports : \E device \in {NoDevice, ForceDevice, DispDevice("0x2E01")} :
          Plug(port, device)
    \/ \E sensor_id \in {FORCE, DISP_1} : reconnect_sensor(sensor_id)
    \/ periodic_sensor_detection
    \/ stop_services
    \/ svc.data_processor_running /\ ProcessTick
    \/ \E metadata \in MetaInputs :
          prepare_test(metadata) /\ UNCHANGED <<recorded, finalized>>
    \/ start_test /\ UNCHANGED <<recorded, finalized>>
    \/ stop_test /\ UNCHANGED <<recorded, finalized>>

SpecSvc ==
    Init({1}, {<<1, 30>>}, {FALSE}, {TRUE}, {TRUE}) /\ [][NextSvc]_vars

(***************************************************************************)
(* Claims about the test lifecycle (Spec)                                  *)
(***************************************************************************)

\* C1: over any sequence of prepare/start/stop/finalize calls the state
\* reported by get_test_state changes only along NOTHING -> PREPARED,
\* PREPARED -> RUNNING, RUNNING -> STOPPED and STOPPED -> NOTHING.
C1_OnlyLegalEdges ==
    [][get_test_state' # get_test_state =>
          <<get_test_state, get_test_state'>> \in
              {<<"NOTHING", "PREPARED">>, <<"PREPARED", "RUNNING">>,
               <<"RUNNING", "STOPPED">>, <<"STOPPED", "NOTHING">>}]_vars

\* C2: start() succeeds only in PREPARED; in NOTHING it fails with
\* InvalidArgument (400), in RUNNING or STOPPED with Conflict (409); a
\* failed start leaves the state, the file handles and the files unchanged.
C2_StartOnlyFromPrepared ==
    [][last'.op = "start" =>
          /\ last'.status = 204 => get_test_state = "PREPARED"
          /\ get_test_state = "NOTHING" => last'.status = 400
          /\ get_test_state \in {"RUNNING", "STOPPED"} => last'.status = 409
          /\ last'.status # 204 =>
                /\ get_test_state' = get_test_state
                /\ UNCHANGED <<raw_file, csv_file, raw_csv_file>>
                /\ disk' = disk]_vars

\* C3: prepare(meta) succeeds only in NOTHING; in PREPARED, RUNNING or
\* STOPPED it fails with Conflict (409) and leaves the current test, its
\* directory and the state unchanged.
C3_PrepareOnlyFromNothing ==
    [][last'.op = "prepare" =>
          /\ last'.status = 204 => get_test_state = "NOTHING"
          /\ get_test_state # "NOTHING" =>
                /\ last'.status = 409
                /\ current_test' = current_test
                /\ current_test_dir' = current_test_dir
                /\ get_test_state' = get_test_state]_vars

\* C4: finalize() succeeds only in STOPPED, and then clears the current
\* test and leaves the state NOTHING; in NOTHING, PREPARED or RUNNING it
\* yields Conflict (409) and leaves the state, the current test and the
\* open files unchanged.
C4_FinalizeOnlyFromStopped ==
    [][last'.op = "finalize" =>
          /\ last'.status = 204 =>
                /\ get_test_state = "STOPPED"
                /\ current_test' = NoTest
                /\ get_test_state' = "NOTHING"
          /\ get_test_state # "STOPPED" =>
                /\ last'.status = 409
                /\ get_test_state' = get_test_state
                /\ current_test' = current_test
                /\ UNCHANGED <<raw_file, csv_file, raw_csv_file>>]_vars

\* C5: stop() called in RUNNING ends in STOPPED with the three file
\* handles null; called in any other state it returns without error and
\* changes nothing (so a second stop() adds nothing to the first).
C5_StopAlwaysStops ==
    [][last'.op = "stop" =>
          /\ last'.status = 204
          /\ IF get_test_state = "RUNNING"
             THEN /\ get_test_state' = "STOPPED"
                  /\ <<raw_file, csv_file, raw_csv_file>>' = <<NoFile, NoFile, NoFile>>
             ELSE UNCHANGED <<current_test, is_running, is_stopped, test_history,
                              data_storage, start_time, raw_file, csv_file,
                              csv_writer, raw_csv_file, raw_csv_writer,
                              current_test_dir, graphique_images, disk>>]_vars

C7_ReadBackInAppendOrder ==
    LET n == Len(cb_log)
        count == Min(n, cb.capacity)
    IN  /\ size(cb) = count
        /\ n > 0 => get(cb, count - 1) = Ok(cb_log[n])
        /\ \A i \in 0..(count - 1) : get(cb, i) = Ok(cb_log[n - count + i + 1])

\* a buffer that has overwritten its oldest entries was read with get
C7_Witness ==
    /\ Len(cb_log) > cb.capacity
    /\ cb.capacity = 3
    /\ cb_out.op = "get"
    /\ cb_out.res = Ok(cb_log[Len(cb_log)])

\* C8: in every reachable buffer state get_all() does not fail and returns
\* exactly the count entries get(0), ..., get(count-1).
C8_GetAllIsAllOfGet ==
    LET r == get_all(cb)
    IN  /\ r.ok
        /\ Len(r.val) = size(cb)
        /\ \A i \in 0..(size(cb) - 1) : Ok(r.val[i + 1]) = get(cb, i)

(***************************************************************************)
(* Claims about the sensor data storage (SpecSDS)                          *)
(***************************************************************************)

\* C9: for every supported window a query returns exactly min(count, N)
\* entries, N the number of reference points int(f * 30).
C9_QueryLength ==
    \A w \in DisplayDuration :
        LET r == get_data_for_window_seconds(sds, 0, w)
        IN  /\ r.ok
            /\ Len(r.val) = Min(size(sds.buffers[0]), sds.reference_points_count)

\* a window of which only a part is present was queried on a wrapped
\* buffer and N entries came back
C9_Witness ==
    /\ sds_out.op = "query"
    /\ Len(sds_log) > sds.total_capacity
    /\ size(sds.buffers[0]) > sds.reference_points_count
    /\ size(sds.buffers[0]) < _precomputed_windows(sds, sds_out.args[1]).max_points
    /\ sds_out.res.ok
    /\ Len(sds_out.res.val) = sds.reference_points_count

\* C10: with samples appended in non-decreasing time order, for every
\* supported window and every count >= 1 the samples returned are in
\* non-decreasing time order and the last one is the sample appended last.
C10_QueryOrderedEndsAtNewest ==
    LET IsNonDecreasing(samples) ==
            \A k \in 1..(Len(samples) - 1) : samples[k][1] <= samples[k + 1][1]
    IN  (sds_log # <<>> /\ IsNonDecreasing(sds_log)) =>
            \A w \in DisplayDuration :
                LET r == get_data_for_window_seconds(sds, 0, w)
                IN  /\ r.ok
                    /\ r.val # <<>>
                    /\ IsNonDecreasing(r.val)
                    /\ r.val[Len(r.val)] = sds_log[Len(sds_log)]

\* a full window of a wrapped buffer was queried through the precomputed
\* offsets and the samples span more than one time
C10_Witness ==
    /\ sds_out.op = "query"
    /\ sds_out.args[1] = 120
    /\ Len(sds_log) > sds.total_capacity
    /\ sds_out.res.ok
    /\ Len(sds_out.res.val) > 1
    /\ sds_out.res.val[1][1] < sds_out.res.val[Len(sds_out.res.val)][1]
    /\ sds_out.res.val[Len(sds_out.res.val)] = sds_log[Len(sds_log)]

(***************************************************************************)
(* Claims about the sensor manager (SpecSM)                                *)
(***************************************************************************)

\* C11: after a zero command for sensor s the next sensor_update published
\* for s carries (its raw value - the raw value last received before the
\* zero); this after any sequence of raw arrivals and zero commands,
\* several zero commands in a row and arrivals from the emulation thread
\* included.
C11_ZeroCancelsLastRaw ==
    \A k \in DOMAIN sm_pub :
        (sm_pub[k].topic = "sensor_update" /\ sm_pub[k].ref # NoVal) =>
            sm_pub[k].value = Num(sm_pub[k].raw.v - sm_pub[k].ref.v)

\* C12: every raw line delivered to the sensor manager produces at most
\* one sensor_raw_update and at most one sensor_update, the raw one first;
\* a line that does not parse (a force line without a number as fifth
\* field, a displacement line without a sender id or without a value)
\* produces neither; the events of one sensor follow the arrival order of
\* its lines.
C12_OneRawThenOneCalibrated ==
    /\ \A n \in DOMAIN sm_env.log :
          LET entry == sm_env.log[n]
              line == entry.line
              raws == {k \in DOMAIN sm_pub : /\ sm_pub[k].arrival = n
                                             /\ sm_pub[k].topic = "sensor_raw_update"}
              cals == {k \in DOMAIN sm_pub : /\ sm_pub[k].arrival = n
                                             /\ sm_pub[k].topic = "sensor_update"}
              parses ==
                  IF entry.sensor_id = FORCE
                  THEN Len(line) >= 5 /\ line[5].kind = "float"
                  ELSE /\ \E k \in DOMAIN line : line[k].kind = "usSenderId="
                       /\ \E k \in DOMAIN line : line[k].kind = "Val=" /\ line[k].ok
          IN  /\ Cardinality(raws) <= 1
              /\ Cardinality(cals) <= 1
              /\ \A c \in cals : \E r \in raws : r < c
              /\ (~entry.emulated /\ ~parses) => (raws = {} /\ cals = {})
              /\ \A k \in raws \cup cals : sm_pub[k].sensor_id = entry.sensor_id
    /\ \A j, k \in DOMAIN sm_pub :
          (j < k /\ sm_pub[j].sensor_id = sm_pub[k].sensor_id) =>
              sm_pub[j].arrival <= sm_pub[k].arrival

\* in hardware mode a line that parses was followed by one that does not,
\* for the same sensor: the first produced its two events, the second none
C12_Witness ==
    /\ ~sm.emulation_mode
    /\ Len(sm_env.log) = 2
    /\ sm_env.log[1].sensor_id = DISP_1
    /\ sm_env.log[2].sensor_id = DISP_1
    /\ Len(sm_pub) = 2
    /\ sm_pub[1].topic = "sensor_raw_update"
    /\ sm_pub[2].topic = "sensor_update"
    /\ sm_pub[2].arrival = 1

\* C13: in hardware mode a displacement line whose usSenderId is not the
\* serialId configured for the sensor it is delivered for produces no
\* sensor_raw_update and no sensor_update and leaves the values unchanged.
C13_UnconfiguredSenderDropped ==
    [][(/\ ~sm.emulation_mode
        /\ Len(sm_env'.log) = Len(sm_env.log) + 1
        /\ LET entry == sm_env'.log[Len(sm_env'.log)]
           IN  /\ entry.sensor_id \in {DISP_1, DISP_2, DISP_3, DISP_4, DISP_5}
               /\ ScanParts(entry.line, 1, "None", NoVal).sender_id
                      # serialId[entry.sensor_id])
       => (sm_pub' = sm_pub /\ sm'.sensors = sm.sensors)]_vars

(***************************************************************************)
(* Claims about the data processor (SpecDP)                                *)
(***************************************************************************)

\* C14: in every published frame values[ARC] is NaN when one of DISP_1,
\* DISP_2, DISP_3 is NaN in that frame, and otherwise equals
\* values[DISP_1] - (values[DISP_2] + values[DISP_3]) / 2 of that frame.
C14_ArcOfTheSameFrame ==
    dp_frame # NoFrame =>
        LET v == dp_frame.values
        IN  IF v[DISP_1].nan \/ v[DISP_2].nan \/ v[DISP_3].nan
            THEN v[ARC].nan
            ELSE /\ ~v[ARC].nan
                 /\ 2 * v[ARC].v = 2 * v[DISP_1].v - (v[DISP_2].v + v[DISP_3].v)

\* a frame published while DISP_3 is disconnected and the other two hold
\* values: DISP_3 and ARC are NaN in it
C14_Witness ==
    /\ dp_frame # NoFrame
    /\ ~dp_connected[DISP_3]
    /\ dp_frame.values[DISP_1] = Num(6)
    /\ dp_frame.values[DISP_2] = Num(2)
    /\ dp_frame.values[DISP_3] = NaN
    /\ dp_frame.values[ARC] = NaN

(***************************************************************************)
(* Claims about the health monitor (SpecHM)                                *)
(***************************************************************************)

\* C15: the retry delays handed out since the last record_data are d0,
\* min(d0*k, Dmax), min(d0*k^2, Dmax), ... in this order;
\* current_backoff_delay never exceeds Dmax; and after a successful
\* reconnect or a record_data the next delay is d0.
C15_BackoffSequence ==
    /\ \A i \in DOMAIN hm_delays :
          LET exact == (1 * Scale * 3 ^ (i - 1)) \div 2 ^ (i - 1)
          IN  hm_delays[i] = IF exact <= 30 * Scale THEN exact ELSE 30 * Scale
    /\ hm.monitor.current_backoff_delay <= 30 * Scale
    /\ rm.monitor.current_backoff_delay <= 30 * Scale
    /\ hm_last.op \in {"record_data", "reconnected"} =>
           get_next_retry_delay(hm.monitor).delay = 1 * Scale

\* ten reconnections failed in a row: the tenth delay is Dmax, the ninth
\* is still below it
C15_Witness ==
    /\ Len(hm_delays) = 10
    /\ hm.monitor.state = "failed"
    /\ hm_delays[1] = 1 * Scale
    /\ hm_delays[2] = 768
    /\ hm_delays[9] < 30 * Scale
    /\ hm_delays[10] = 30 * Scale

\* a successful reconnect after failures: the backoff had grown
C15_WitnessReset ==
    /\ hm_last.op = "reconnected"
    /\ hm_last.before.current_backoff_delay > 1 * Scale
    /\ hm.monitor.current_backoff_delay = 1 * Scale

\* C16: in every reachable state of a monitor, record_data() leaves it
\* CONNECTED with reconnect_attempts = 0 and current_backoff_delay =
\* initial_reconnect_delay; so it is after each call made.
C16_RecordDataResets ==
    /\ \A m \in {hm.monitor, rm.monitor} :
          LET after == record_data(m)
          IN  /\ after.state = "connected"
              /\ after.reconnect_attempts = 0
              /\ after.current_backoff_delay = 1 * Scale
    /\ hm_last.op \in {"record_data", "reconnected"} =>
          /\ hm.monitor.state = "connected"
          /\ hm.monitor.reconnect_attempts = 0
          /\ hm.monitor.current_backoff_delay = 1 * Scale

\* record_data called on a FAILED monitor whose backoff had grown
C16_Witness ==
    /\ hm_last.op = "record_data"
    /\ hm_last.before.state = "failed"
    /\ hm_last.before.reconnect_attempts = 2
    /\ hm_last.before.current_backoff_delay = 1152
    /\ hm.monitor = [SensorHealthMonitor EXCEPT !.silence = 0]

(***************************************************************************)
(* Claims about the history and the queries of the test manager (SpecOps)  *)
(***************************************************************************)

\* C17: archive(id) and delete(id) called with the id of the test in flight
\* (PREPARED, RUNNING or STOPPED) leave its directory and files in place.
C17_InFlightDirectoryKept ==
    [][(/\ last'.op \in {"archive", "delete"}
        /\ current_test # NoTest
        /\ last'.args = <<current_test.test_id>>
        /\ current_test.test_id \in DOMAIN disk)
       => /\ current_test.test_id \in DOMAIN disk'
          /\ disk'[current_test.test_id] = disk[current_test.test_id]]_vars

\* C18: get_history() never contains the test in flight, and it contains
\* every test finalized and not archived or deleted since.
C18_HistoryOfFinalizedOnly ==
    LET history == {m.test_id : m \in reload_history(disk, current_test)}
    IN  /\ get_test_state # "NOTHING" => current_test.test_id \notin history
        /\ \A test_id \in finalized : test_id \in history

\* C19: get_sensor_history answers with data only in RUNNING and STOPPED;
\* in NOTHING and PREPARED it raises the error the router turns into 409.
C19_SensorHistoryGated ==
    last.op = "get_sensor_history" =>
        /\ last.res.ok => last.before \in {"RUNNING", "STOPPED"}
        /\ last.before \in {"NOTHING", "PREPARED"} =>
              /\ ~last.res.ok
              /\ last.res.err = "RuntimeError"
              /\ last.status = 409

\* the query made in PREPARED, answered 409
C19_Witness ==
    /\ last.op = "get_sensor_history"
    /\ last.before = "PREPARED"
    /\ last.status = 409
    /\ last.args = <<FORCE, 30>>
    /\ last.res = Raise("RuntimeError")

\* the query made in STOPPED, answered with the frames recorded
C19_WitnessData ==
    /\ last.op = "get_sensor_history"
    /\ last.before = "STOPPED"
    /\ last.res.ok
    /\ Len(last.res.val) >= 1

\* C20: after stop() called in RUNNING, whether it returned or raised, the
\* state is STOPPED.
C20_StopSurvivesCloseFailure ==
    (last.op = "stop" /\ last.before = "RUNNING") => get_test_state = "STOPPED"

(***************************************************************************)
(* Claims about the recording of processed frames (Spec)                   *)
(***************************************************************************)

\* C21: a NaN value of a sensor in a processed frame received while RUNNING
\* is written to data.csv as an empty field, for every sensor column.
C21_NaNWrittenEmpty ==
    [][\A values \in FrameValues :
          (/\ get_test_state = "RUNNING"
           /\ csv_file # NoFile
           /\ ~IsClosed(csv_file)
           /\ csv_file.dir \in DOMAIN disk
           /\ _on_processed_data([timestamp |-> now, values |-> values]))
          => LET rows == disk'[csv_file.dir]["data.csv"]
                 row == rows[Len(rows)]
             IN  \A k \in 1..Len(SortedSensorIds) :
                    values[SortedSensorIds[k]].nan => row[k + 2] = Text("")]_vars

(***************************************************************************)
(* Claims about the connectivity of the sensors (SpecConn)                 *)
(***************************************************************************)

C23_ArcIsConjunction ==
    [][QueryConnected(ARC)
       => LET tasks == sensor_tasks(sm.emulation_mode, config, monitors)
          IN  conn_out'.sm =
                 \A i \in {DISP_1, DISP_2, DISP_3} :
                    is_sensor_connected(sm.emulation_mode, tasks, i)]_vars

(***************************************************************************)
(* Claims about the cache of the data processor (SpecDP)                   *)
(***************************************************************************)

\* C28: a turn of the processing loop leaves the cached latest value of
\* every physical sensor that is not connected unchanged: NaN goes into the
\* frame only.
C28_CacheKeptOnTick ==
    [][ProcessTick
       => \A i \in SensorId \ {ARC} :
             ~is_sensor_connected(sm.emulation_mode, dp_connected, i)
             => /\ dp_frame'.values[i] = NaN
                /\ dp'.latest_values[i] = dp.latest_values[i]]_vars

\* C29: per sensor, the first and the second consecutive NaN sample leave
\* the cached value unchanged, the third and every further one set it to
\* NaN, and a sample that is not NaN sets the count of consecutive NaN to 0
\* and the cached value to the sample.
C29_ThirdNaNPoisons ==
    [][\A sensor_id \in SensorId : \A value \in {Num(2), Num(6), NaN} :
          SensorUpdate(sensor_id, value)
          => /\ \A i \in SensorId \ {sensor_id} :
                   /\ dp'.latest_values[i] = dp.latest_values[i]
                   /\ dp'.nan_counts[i] = dp.nan_counts[i]
             /\ IF ~value.nan
                THEN /\ dp'.nan_counts[sensor_id] = 0
                     /\ dp'.latest_values[sensor_id] = value
                ELSE /\ dp'.nan_counts[sensor_id] = dp.nan_counts[sensor_id] + 1
                     /\ dp'.latest_values[sensor_id] =
                           IF dp.nan_counts[sensor_id] < 2
                           THEN dp.latest_values[sensor_id]
                           ELSE NaN]_vars

\* a fourth consecutive NaN has arrived after the third replaced a cached
\* value by NaN
C29_Witness ==
    /\ dp.nan_counts[DISP_1] = 4
    /\ dp.latest_values[DISP_1] = NaN
    /\ dp.latest_values[DISP_2] = Num(6)

(***************************************************************************)
(* Claims about the ring buffers of the test manager (SpecOps, Spec)       *)
(***************************************************************************)

\* C26: stop() leaves the ring buffer of every sensor unchanged, so that
\* get_sensor_history in STOPPED returns what it returned just before the
\* stop, and a start() that succeeds leaves every ring buffer empty.
C26_StopKeepsStartClears ==
    [][/\ stop_test
          => /\ data_storage' = data_storage
             /\ (get_test_state = "RUNNING" /\ get_test_state' = "STOPPED")
                => \A i \in SensorId : \A window_seconds \in {30, 45} :
                      get_data_for_window_seconds(data_storage', i, window_seconds)
                      = get_data_for_window_seconds(data_storage, i, window_seconds)
       /\ (start_test /\ last'.exc = "None")
          => \A i \in SensorId :
                /\ size(data_storage'.buffers[i]) = 0
                /\ \A window_seconds \in DisplayDuration :
                      get_data_for_window_seconds(data_storage', i, window_seconds)
                      = Ok(<<>>)]_vars

\* a stopped test whose history still answers with the frame recorded
\* before the stop
C26_Witness ==
    /\ get_test_state = "STOPPED"
    /\ \A i \in SensorId : size(data_storage.buffers[i]) = 1
    /\ last.op = "get_sensor_history"
    /\ last.before = "STOPPED"
    /\ last.res.ok
    /\ Len(last.res.val) = 1

\* C27: while a test runs, a processed frame that finds the ring buffer of
\* a sensor empty (the first frame after start) is stored in it, a later
\* frame is stored only when its relative time is at least
\* 1/f_store - 1e-6 after the last stored entry, and a frame that comes
\* sooner is written to data.csv and leaves the ring buffer unchanged.
C27_RateLimitedStore ==
    [][\A values \in FrameValues \cup {[i \in SensorId |-> Num(i * 1000000 + 4999)]} :
          (is_running /\ _on_processed_data([timestamp |-> now, values |-> values]))
          => LET rel_time == now - start_time
                 spacing == 1000000 \div 4
                 written == /\ csv_file # NoFile
                            /\ csv_file.dir \in DOMAIN disk'
                            /\ "data.csv" \in DOMAIN disk'[csv_file.dir]
                            /\ Len(disk'[csv_file.dir]["data.csv"])
                                  = Len(disk[csv_file.dir]["data.csv"]) + 1
             IN  \A i \in SensorId :
                    LET buffer == data_storage.buffers[i]
                        stored == append(buffer, rel_time, values[i])
                    IN  IF size(buffer) = 0
                        THEN data_storage'.buffers[i] = stored
                        ELSE IF rel_time - get(buffer, size(buffer) - 1).val[1]
                                   >= spacing - Epsilon
                        THEN data_storage'.buffers[i] = stored
                        ELSE /\ data_storage'.buffers[i] = buffer
                             /\ written]_vars

(***************************************************************************)
(* Claims about the event hub (SpecHub)                                    *)
(***************************************************************************)

\* C24: when a synchronous handler raises during a publish, every handler
\* subscribed to the topic at the start of the publish still receives the
\* message, and the publish does not raise to the publisher.
C24_RaiseDoesNotAbort ==
    (/\ hub_out.inline
     /\ \E k \in 1..Len(hub_out.handlers) :
           hub_out.script[hub_out.handlers[k]].kind = "raise")
    => /\ hub_out.received = hub_out.handlers
       /\ ~hub_out.raised

\* the first of three subscribers raised and the two others were called
C24_Witness ==
    /\ hub_out.inline
    /\ hub_out.handlers = <<"h1", "h2", "h3">>
    /\ hub_out.script["h1"].kind = "raise"
    /\ hub_out.errors = <<"h1">>
    /\ hub_out.received = <<"h1", "h2", "h3">>
    /\ ~hub_out.raised

\* C30: the handlers that receive a published message are exactly those
\* subscribed to the topic when the publish starts, in their order, whatever
\* the handlers subscribe or unsubscribe during the dispatch; the
\* subscriptions and unsubscriptions made during the dispatch are in effect
\* when the publish returns, hence for the next publish.
C30_SnapshotDispatch ==
    /\ [](hub_out.received \o hub.queue = hub_out.handlers)
    /\ [][\A in_loop \in BOOLEAN :
          (/\ hub_out'.script # <<>>
           /\ Publish("processed_data", in_loop, hub_out'.script)
           /\ hub_out'.inline)
          => \A g \in {"h1", "h2", "h3"} :
                LET Member(h) ==
                        /\ "processed_data" \in DOMAIN h._subscribers
                        /\ \E k \in 1..Len(h._subscribers["processed_data"]) :
                              h._subscribers["processed_data"][k] = g
                    handlers == hub_out'.handlers
                    touch == {k \in 1..Len(handlers) :
                                 /\ hub_out'.script[handlers[k]].handler = g
                                 /\ hub_out'.script[handlers[k]].kind
                                       \in {"subscribe", "unsubscribe"}}
                IN  IF touch = {}
                    THEN Member(hub') = Member(hub)
                    ELSE Member(hub') =
                            (hub_out'.script[handlers[
                                 CHOOSE k \in touch : \A j \in touch : j <= k]].kind
                             = "subscribe")]_vars

\* the first handler unsubscribed the second during the dispatch: the second
\* still received the message and is no longer subscribed
C30_Witness ==
    /\ hub_out.inline
    /\ hub_out.handlers = <<"h1", "h2", "h3">>
    /\ hub_out.script["h1"] = [kind |-> "unsubscribe", handler |-> "h2"]
    /\ hub_out.script["h2"].kind = "return"
    /\ hub_out.received = <<"h1", "h2", "h3">>
    /\ hub._subscribers["processed_data"] = <<"h1", "h3">>

(***************************************************************************)
(* Claims about the service manager (SpecSvc)                              *)
(***************************************************************************)

\* C25: after stop_services nothing keeps producing: the supervisor and the
\* rediscovery are cancelled, every reader task ever created is cancelled,
\* the sensor manager and the data processor are stopped, and no test is
\* RUNNING.
C25_StopStopsEverything ==
    [][stop_services
       => /\ svc'.monitor_task # "pending"
          /\ svc'.detection_task # "pending"
          /\ \A k \in DOMAIN svc'.tasks : svc'.tasks[k].cancelled
          /\ ~svc'.sensor_manager_running
          /\ ~svc'.data_processor_running
          /\ get_test_state' # "RUNNING"]_vars

(***************************************************************************)
(* C31: one turn of the supervisor applies this table to the monitor: a    *)
(* CONNECTED monitor silent for more than max_silence_time becomes         *)
(* DISCONNECTED and no reconnection is started in that turn; a             *)
(* DISCONNECTED or FAILED monitor with a callback becomes RECONNECTING,    *)
(* its attempts one more, and the callback is scheduled after the backoff  *)
(* delay the monitor held; a RECONNECTING monitor whose task is done       *)
(* becomes CONNECTED with attempts and backoff reset when the task         *)
(* returned true, FAILED otherwise; a CONNECTED monitor that is not silent *)
(* and a RECONNECTING monitor whose task is pending are left as they are.  *)
(***************************************************************************)
C31_TickTable ==
    [][MonitorTick =>
          LET m == hm.monitor
              n == hm'.monitor
              silent == m.silence > max_silence_time
              pending == hm.task.task /\ ~hm.task.done
          IN  /\ (m.state = "connected" /\ silent) =>
                    /\ n.state = "disconnected"
                    /\ hm'.task = hm.task
                    /\ hm_delays' = hm_delays
              /\ (m.state \in {"disconnected", "failed"} /\ hm.callback) =>
                    /\ n.state = "reconnecting"
                    /\ n.reconnect_attempts = m.reconnect_attempts + 1
                    /\ hm'.task = ReconnectTask(FALSE, FALSE)
                    /\ hm_delays' = Append(hm_delays, m.current_backoff_delay)
              /\ (m.state = "reconnecting" /\ hm.task.task /\ hm.task.done) =>
                    IF hm.task.result
                    THEN /\ n.state = "connected"
                         /\ n.reconnect_attempts = 0
                         /\ n.current_backoff_delay = initial_reconnect_delay
                    ELSE n.state = "failed"
              /\ ((m.state = "connected" /\ ~silent)
                     \/ (m.state = "reconnecting" /\ pending)) =>
                    hm' = hm]_vars

\* a turn has taken the monitor from RECONNECTING to CONNECTED at its third
\* attempt at least, the earlier ones having failed
C31_Witness ==
    /\ hm_last.op = "reconnected"
    /\ hm_last.before.state = "reconnecting"
    /\ hm_last.before.reconnect_attempts >= 3
    /\ hm.monitor.state = "connected"

(***************************************************************************)
(* C32: at any time at most one reconnection task of the sensor is         *)
(* pending, whatever the order of supervisor turns, record_data calls and  *)
(* state changes made by the reader.                                       *)
(***************************************************************************)
C32_OneAttemptPerSensor ==
    (IF hm.task.task /\ ~hm.task.done THEN 1 ELSE 0) + hm.replaced <= 1

(***************************************************************************)
(* C33: after a call of the reader's read_func in which opening the port   *)
(* or reading raised, whether or not the port had been opened before, the  *)
(* serial handle is closed and None and the reader's health monitor is     *)
(* DISCONNECTED.  (The handle is None after a call exactly when opening or *)
(* reading raised in the last call.)                                       *)
(***************************************************************************)
C33_ErrorDisconnects ==
    (rm_out.called /\ ~rm.ser) => rm.monitor.state = "disconnected"

(***************************************************************************)
(* Claims about the port detector (SpecPD)                                 *)
(***************************************************************************)

\* C34: a call of auto_detect_sensors probes no port and assigns no port
\* that was in used_ports when it started; in the dictionary it returns no
\* port is given to two sensors and no sensor to two ports; and every port
\* of that dictionary is in used_ports after the call.
C34_UsedPortsRespected ==
    [][AutoDetect =>
          /\ pd'.probed \cap pd.used_ports = {}
          /\ \A k \in DOMAIN pd'.assigned :
                /\ pd'.assigned[k][2] \notin pd.used_ports
                /\ pd'.assigned[k][2] \in pd'.used_ports
                /\ \A j \in DOMAIN pd'.assigned :
                      (\/ pd'.assigned[j][1] = pd'.assigned[k][1]
                       \/ pd'.assigned[j][2] = pd'.assigned[k][2]) => j = k]_vars

\* the last call left out the used port 1, whose device would have answered,
\* and gave port 2 to the sensor
C34_Witness ==
    /\ pd.raised = "None"
    /\ pd.before = {1}
    /\ pd.comports[1] = DispDevice("0x2E01")
    /\ pd.assigned = <<<<DISP_1, 2>>>>
    /\ pd.used_ports = {1, 2}

(***************************************************************************)
(* Claims about the rediscovery and the reader tasks (SpecSvc)             *)
(***************************************************************************)

\* C35: a turn of the rediscovery loop that finds sensors missing probes
\* exactly one of them, and the wait between two turns is always between 1
\* and max_wait_time seconds.
C35_ProbesOneMissing ==
    /\ svc.wait_time \in 1..max_wait_time
    /\ (svc.last = "detection" /\ svc.detection.missing # {})
          => /\ Cardinality(svc.detection.probed) = 1
             /\ svc.detection.probed \subseteq svc.detection.missing

(***************************************************************************)
(* C36: the values and the offsets of the sensor manager are written on    *)
(* the runtime thread only: a step of the emulation thread, which runs     *)
(* _notify for an emulated value, leaves both arrays as they are, and the  *)
(* value is stored when the runtime thread dispatches the event.           *)
(***************************************************************************)
C36_EmulationThreadWritesNothing ==
    [][EmulateEnd => (sm'.sensors = sm.sensors /\ sm'.offsets = sm.offsets)]_vars

\* the reader tasks of a sensor that are running: serial_reader opens the
\* port again after every error and ends only when it is cancelled
live_readers(sensor_id) ==
    {k \in DOMAIN svc.tasks :
        svc.tasks[k].sensor_id = sensor_id /\ ~svc.tasks[k].cancelled}

\* C37: at any time at most one reader task of a sensor is running: when a
\* reconnection or the rediscovery creates a reader task for a sensor, no
\* reader task created earlier for that sensor is still running.
C37_OneReaderPerSensor ==
    \A sensor_id \in SensorId : Cardinality(live_readers(sensor_id)) <= 1

(***************************************************************************)
(* C38: in every state reached by prepare, start, stop and finalize calls  *)
(* the flags is_running and is_stopped are never both true, and while one  *)
(* of them is true there is a current test with its directory (so that a   *)
(* RUNNING test can be stopped).                                           *)
(***************************************************************************)
C38_FlagsConsistent ==
    /\ ~(is_running /\ is_stopped)
    /\ (is_running \/ is_stopped)
          => (current_test # NoTest /\ current_test_dir # NoDir)

C40_EventuallyConnected ==
    /\ (hm.monitor.state \in {"disconnected", "failed"} /\ hm.callback)
           ~> (hm.monitor.state = "connected")
    /\ (hm.monitor.state = "reconnecting" /\ hm.task.task /\ hm.task.done)
           ~> (hm.monitor.state # "reconnecting")

\* the supervisor has found a successful task after a failed attempt
C40_Witness ==
    /\ hm_last.op = "reconnected"
    /\ hm_last.before.state = "reconnecting"
    /\ hm_last.before.reconnect_attempts >= 2
    /\ hm.callback
    /\ hm.monitor.state = "connected"

====
